---------------------------- MODULE Spec2Model ----------------------------
(***************************************************************************)
(* gfaestus: the Graph Query Service (src/src/graph_query.rs).             *)
(*                                                                         *)
(* The GraphQuery facade owns the graph, the path-position index and the   *)
(* two endpoints of a dedicated query thread.  Callers hand a request to   *)
(* the thread over a zero-capacity channel and receive the response over   *)
(* a second zero-capacity channel.  The GraphQueryWorker submits read      *)
(* operations to a shared thread pool.                                     *)
(*                                                                         *)
(* A channel is modelled by the sequence of messages that senders have     *)
(* offered and no receiver has taken yet.  A send returns once its message *)
(* is within the channel's capacity or has been taken; with capacity 0 it  *)
(* returns only once a receiver has taken the message (rendezvous).        *)
(***************************************************************************)
EXTENDS Integers, Sequences, FiniteSets, TLC

\* ------------------------------------------------------------- bounds
NumCallers == 2
NumTasks == 2
MaxCalls == 2
PoolWorkers == 1

Callers == 1..NumCallers
Tasks == 1..NumTasks

\* ------------------------------------------------------------- graph store

\* Handle::pack(node_id, is_reverse): the node id shifted left, the strand
\* in the lowest bit.
Pack(id, rev) == 2 * id + (IF rev THEN 1 ELSE 0)

HandleId(h) == h \div 2

HandleIsReverse(h) == h % 2 = 1

Flip(h) == IF HandleIsReverse(h) THEN h - 1 ELSE h + 1

\* Two small graphs.  GraphA: nodes 1 and 2, one edge 1+ -> 2+, one path
\* (id 1) that visits 1+, 2+, 1+.  GraphB: the single node 1, no edge, no path.
GraphA ==
    [nodes |-> {1, 2},
     seq   |-> (1 :> <<"A", "C">>) @@ (2 :> <<"G">>),
     edges |-> {<<Pack(1, FALSE), Pack(2, FALSE)>>},
     paths |-> <<  <<Pack(1, FALSE), Pack(2, FALSE), Pack(1, FALSE)>>  >>]

GraphB ==
    [nodes |-> {1},
     seq   |-> (1 :> <<"T">>),
     edges |-> {},
     paths |-> << >>]

Graphs == {GraphA, GraphB}

\* The identifiers a request may carry; node 2 and path 1 are absent from
\* GraphB, path 2 from both graphs.
NodeIds == {1, 2}
PathIds == {1, 2}

RECURSIVE SumLen(_, _)
SumLen(g, ns) ==
    IF ns = {} THEN 0
    ELSE LET n == CHOOSE x \in ns : TRUE
         IN  Len(g.seq[n]) + SumLen(g, ns \ {n})

\* HandleGraph::degree(handle, dir): the number of edges on one side of the
\* handle.  An edge (a, b) is also the edge (flip b, flip a).
Neighbors(g, h, dir) ==
    IF dir = "Right"
    THEN {e[2] : e \in {x \in g.edges : x[1] = h}}
         \cup {Flip(e[1]) : e \in {x \in g.edges : x[2] = Flip(h)}}
    ELSE {e[1] : e \in {x \in g.edges : x[2] = h}}
         \cup {Flip(e[2]) : e \in {x \in g.edges : x[1] = Flip(h)}}

Degree(g, h, dir) == Cardinality(Neighbors(g, h, dir))

\* steps_on_handle(handle).map(|occurs| occurs.count()).unwrap_or(0): the
\* steps of all paths that occur on the handle's node.
StepsOnHandle(g, h) ==
    UNION {{<<p, i>> : i \in {j \in DOMAIN g.paths[p] :
                                HandleId(g.paths[p][j]) = HandleId(h)}} :
           p \in DOMAIN g.paths}

Coverage(g, h) == Cardinality(StepsOnHandle(g, h))

\* PathPositionMap::index_paths(&graph): for every path, the base-pair
\* offset at which each of its steps starts.
RECURSIVE StepOffset(_, _, _)
StepOffset(g, p, i) ==
    IF i = 1 THEN 0
    ELSE StepOffset(g, p, i - 1) + Len(g.seq[HandleId(g.paths[p][i - 1])])

IndexPaths(g) ==
    [p \in DOMAIN g.paths |->
        [i \in DOMAIN g.paths[p] |-> StepOffset(g, p, i)]]

\* path_positions.handle_positions(&graph, handle): the (path, step, offset)
\* triples of the steps on the handle's node; None when there are none.
HandlePositionsOf(pp, g, h) ==
    LET occ == {<<s[1], s[2], pp[s[1]][s[2]]>> : s \in StepsOnHandle(g, h)}
    IN  IF occ = {} THEN [some |-> FALSE, val |-> {}]
        ELSE [some |-> TRUE, val |-> occ]

\* graph.handles(): the forward handle of every node.
Handles(g) == {Pack(n, FALSE) : n \in g.nodes}

\* graph.handles().collect(): the handles in the order in which the graph
\* enumerates them, which the graph does not fix.
Enumerations(g) ==
    {hs \in [1..Cardinality(Handles(g)) -> Handles(g)] :
        \A i, j \in DOMAIN hs : i # j => hs[i] # hs[j]}

InsertSorted(sorted, h) ==
    LET k == Cardinality({i \in DOMAIN sorted : sorted[i] <= h})
    IN  SubSeq(sorted, 1, k) \o <<h>> \o SubSeq(sorted, k + 1, Len(sorted))

\* Variant: the collected handles are left in enumeration order.
SortHandlesSkipped(hs) == hs

\* handles.sort(): ascending by the packed handle value.
RECURSIVE SortHandles(_)
SortHandles(hs) ==
    IF hs = << >> THEN << >>
    ELSE InsertSorted(SortHandles(Tail(hs)), Head(hs))

\* The caller-supplied colouring functions f(&graph, handle).
ColorFns == {"by_id", "by_len"}

ApplyColor(f, g, h) ==
    IF f = "by_id" THEN HandleId(h) ELSE Len(g.seq[HandleId(h)])

\* build_overlay_colors(f) on the enumeration hs: the handles f is applied
\* to, in the order of the loop, and the colours pushed.
OverlayCalls(hs) == SortHandles(hs)

OverlayColors(g, f, hs) ==
    LET handles == OverlayCalls(hs)
    IN  [i \in DOMAIN handles |-> ApplyColor(f, g, handles[i])]

\* The read operations a run_query closure performs on the GraphQuery it
\* is handed.
QueryOps == {"node_count", "edge_count"}

OpValue(g, op) ==
    IF op = "node_count" THEN Cardinality(g.nodes) ELSE Cardinality(g.edges)

\* ------------------------------------------------------------- path_step_range
\* src/src/annotations.rs.  A step is (Handle, StepPtr, usize); the function
\* reads only the base-pair offset, so a step array is the sequence of its
\* steps' offsets and a returned slice is a pair of 0-based indices lo..hi.

MaxSteps == 3
MaxPos == 3
USizeBits == 8

\* usize arithmetic wraps modulo 2^bits when overflow checks are off.
USizeModulus == 2 ^ USizeBits

None == [some |-> FALSE]
Some(v) == [some |-> TRUE, val |-> v]

UnwrapOr(o, d) == IF o.some THEN o.val ELSE d

CheckedSub(a, b) == IF a >= b THEN Some(a - b) ELSE None

Min(a, b) == IF a <= b THEN a ELSE b

\* slice::binary_search_by_key: Ok(index of a match) or Err(insertion point).
RECURSIVE BinarySearchLoop(_, _, _, _)
BinarySearchLoop(offs, key, left, right) ==
    IF left < right
    THEN LET mid == left + (right - left) \div 2
             p   == offs[mid + 1]
         IN  IF p < key THEN BinarySearchLoop(offs, key, mid + 1, right)
             ELSE IF p > key THEN BinarySearchLoop(offs, key, left, mid)
             ELSE [ok |-> TRUE, ix |-> mid]
    ELSE [ok |-> FALSE, ix |-> left]

BinarySearchByKey(offs, key) == BinarySearchLoop(offs, key, 0, Len(offs))

\* Variant: an exact match of the end bound is included in the slice.
MatchIndicesInclusive(s, e) == <<s.ix, IF e.ok THEN e.ix + 1 ELSE e.ix>>

\* Variant: a start bound between two steps selects the step before it.
MatchIndicesCovering(s, e) ==
    <<IF s.ok \/ s.ix = 0 THEN s.ix ELSE s.ix - 1, e.ix>>

\* match (start, end) { (Ok(s), Ok(e)) => (s, e), (Ok(s), Err(e)) => (s, e),
\*                      (Err(s), Ok(e)) => (s, e), (Err(s), Err(e)) => (s, e) }
MatchIndices(s, e) == <<s.ix, e.ix>>

Panicked == [panic |-> TRUE]

\* path_step_range(steps, offset, start, end).  overflow_checks is the
\* build's setting: with it an overflowing subtraction or addition panics,
\* without it the result wraps.  &steps[start..end] panics when start > end.
PathStepRange(steps, offset, start, end, overflow_checks) ==
    LET off == UnwrapOr(offset, 0)
    IN  IF overflow_checks /\ end < start THEN Panicked
        ELSE
        LET len    == (end - start + USizeModulus) % USizeModulus
            start1 == UnwrapOr(CheckedSub(start, off), 0)
        IN  IF overflow_checks /\ start1 + len >= USizeModulus THEN Panicked
            ELSE
            LET end1 == UnwrapOr(CheckedSub(end, off),
                                 (start1 + len) % USizeModulus)
                ixs  == MatchIndices(BinarySearchByKey(steps, start1),
                                     BinarySearchByKey(steps, end1))
                lo   == ixs[1]
                hi   == Min(ixs[2], Len(steps))
            IN  IF lo > hi THEN Panicked
                ELSE [panic |-> FALSE, lo |-> lo, hi |-> hi]

\* The step arrays of the model: offsets in ascending order.
SortedOffsets(offs) == \A i \in 1..(Len(offs) - 1) : offs[i] <= offs[i + 1]

StepArrays ==
    {offs \in UNION {[1..n -> 0..MaxPos] : n \in 0..MaxSteps} :
        SortedOffsets(offs)}

\* The steps and the query [15, 35) of the worked example.
ExampleSteps == <<0, 10, 20, 30, 40>>

\* ------------------------------------------------------------- path names
\* src/src/annotations.rs.  A path name is a byte string, here the sequence
\* of its characters.

MaxNameLen == 6

Returns(v) == [panic |-> FALSE, res |-> v]

\* ByteSlice::find_byte: the 0-based index of the first occurrence.
FindByte(s, b) ==
    IF \E i \in DOMAIN s : s[i] = b
    THEN Some((CHOOSE i \in DOMAIN s :
                 s[i] = b /\ \A j \in 1..(i - 1) : s[j] # b) - 1)
    ELSE None

\* ByteSlice::split_str with a one-byte separator: the pieces between the
\* occurrences of the separator, one piece when there is none.
RECURSIVE SplitStr(_, _)
SplitStr(s, sep) ==
    LET f == FindByte(s, sep)
    IN  IF ~f.some THEN <<s>>
        ELSE <<SubSeq(s, 1, f.val)>>
             \o SplitStr(SubSeq(s, f.val + 2, Len(s)), sep)

Digits == <<"0", "1", "2", "3", "4", "5", "6", "7", "8", "9">>

IsDigit(ch) == \E i \in DOMAIN Digits : Digits[i] = ch

DigitValue(ch) == (CHOOSE i \in DOMAIN Digits : Digits[i] = ch) - 1

RECURSIVE DecimalValue(_)
DecimalValue(s) ==
    IF s = << >> THEN 0
    ELSE 10 * DecimalValue(SubSeq(s, 1, Len(s) - 1)) + DigitValue(s[Len(s)])

\* str::parse::<usize>(): an optional '+', then one or more decimal digits,
\* the value within usize; anything else is an error.
ParseUsize(s) ==
    LET t == IF s # << >> /\ Head(s) = "+" THEN Tail(s) ELSE s
    IN  IF t = << >> \/ \E i \in DOMAIN t : ~IsDigit(t[i]) THEN None
        ELSE IF DecimalValue(t) >= USizeModulus THEN None
        ELSE Some(DecimalValue(t))

\* pos_str[seq_id_end + 1..range_mid]: the slice panics when its start lies
\* beyond its end.
StartField(pos_str, seq_id_end, range_mid) ==
    IF seq_id_end + 1 > range_mid THEN Panicked
    ELSE Returns(SubSeq(pos_str, seq_id_end + 2, range_mid))

\* path_name_chr_range(path_name), for names "path#seq_id:start-end".
PathNameChrRangeOf(path_name) ==
    LET pos_start_ix == FindByte(path_name, "#")
    IN  IF ~pos_start_ix.some THEN Returns(None)
        ELSE IF pos_start_ix.val + 1 >= Len(path_name) THEN Returns(None)
        ELSE
        LET pos_str    == SubSeq(path_name, pos_start_ix.val + 2,
                                 Len(path_name))
            seq_id_end == FindByte(pos_str, ":")
            range_mid  == FindByte(pos_str, "-")
        IN  IF ~seq_id_end.some THEN Returns(None)
            ELSE IF ~range_mid.some THEN Returns(None)
            ELSE IF range_mid.val + 1 >= Len(pos_str) THEN Returns(None)
            ELSE
            LET chr       == SubSeq(pos_str, 1, seq_id_end.val)
                start_str == StartField(pos_str, seq_id_end.val,
                                        range_mid.val)
            IN  IF start_str.panic THEN Panicked
                ELSE
                LET start == ParseUsize(start_str.res)
                    end   == ParseUsize(SubSeq(pos_str, range_mid.val + 2,
                                               Len(pos_str)))
                IN  IF ~start.some THEN Returns(None)
                    ELSE IF ~end.some THEN Returns(None)
                    ELSE Returns(Some(<<chr, start.val, end.val>>))

\* path_name_range(path_name), for names "path:start-end".
PathNameRangeOf(path_name) ==
    LET range_split == SplitStr(path_name, ":")
    IN  IF Len(range_split) < 2 THEN Returns(None)
        ELSE
        LET start_end == SplitStr(range_split[2], "-")
            start     == ParseUsize(start_end[1])
        IN  IF ~start.some THEN Returns(None)
            ELSE IF Len(start_end) < 2 THEN Returns(None)
            ELSE LET end == ParseUsize(start_end[2])
                 IN  IF ~end.some THEN Returns(None)
                     ELSE Returns(Some(<<start.val, end.val>>))

\* path_name_offset(path_name): path_name_range(path_name).map(|(s, _)| s)
PathNameOffsetOf(path_name) ==
    LET range == PathNameRangeOf(path_name)
    IN  IF range.panic THEN Panicked
        ELSE IF ~range.res.some THEN Returns(None)
        ELSE Returns(Some(range.res.val[1]))

\* The names of the model: every string up to MaxNameLen over the
\* separators, a digit and a letter, and some names of full length.
NameBytes == {"#", ":", "-", "1", "x"}

ExampleNames ==
    {<<"c", "h", "r", "1", "#", "c", "h", "r", "X", ":", "1", "0", "0", "-", "2", "0", "0">>,
     <<"c", "h", "r", "1", "#", "c", "h", "r", "-", "X", ":", "1", "0", "0", "-", "2", "0", "0">>,
     <<"c", "h", "r", "1", ":", "1", "0", "0", "-", "2", "0", "0">>,
     <<"c", "h", "r", "1", "#", "c", "h", "r", "X", ":", "+", "1", "0", "0", "-", "2", "0", "0">>}

Names == UNION {[1..n -> NameBytes] : n \in 0..MaxNameLen} \cup ExampleNames

\* ------------------------------------------------------------- label clusters
\* src/src/annotations.rs, ClusterCache.  Nodes lie on one line: a node is
\* its two end points p0 and p1, a step is the id of its handle's node, a
\* label set maps a node id to its label indices.

MaxPathLen == 3

\* View.scale in units of half the cache's epsilon: ScaleOne is scale 1.0,
\* ScaleEps is 0.0001.
ScaleOne == 20000
ScaleEps == 2

Abs(x) == IF x < 0 THEN -x ELSE x

ClusterNodeIds == 1..3

\* nodes[node_ix].center()
Center(node) == (node.p0 + node.p1) \div 2

\* Variant: the radius test is strict.
WithinRadiusStrict(node_pos, start_pos, scale, radius) ==
    Abs(node_pos - start_pos) * ScaleOne < radius * scale

\* node_pos.dist(start_pos) <= radius, on the screen positions
\* to_screen(p) = view.to_scaled_matrix() * p: world distances divided by
\* the view's scale.
WithinRadius(node_pos, start_pos, scale, radius) ==
    Abs(node_pos - start_pos) * ScaleOne <= radius * scale

NoOpenCluster ==
    [open |-> FALSE, range |-> <<0, 0>>, start_pos |-> 0,
     current |-> << >>, clusters |-> {}]

\* Variant: current_cluster is not cleared when a cluster is closed.
ScanStepNoClear(in, scale, radius, ix, st) ==
    LET node == in.steps[ix]
    IN  IF node \notin DOMAIN in.labels THEN st
        ELSE
        LET node_pos == Center(in.nodes[node])
        IN  IF st.open
            THEN IF WithinRadius(node_pos, st.start_pos, scale, radius)
                 THEN [st EXCEPT !.range = <<st.range[1], ix>>,
                                 !.current = @ \o in.labels[node]]
                 ELSE [st EXCEPT !.clusters = @ \cup
                                     {[range |-> st.range,
                                       label_indices |-> st.current]},
                                 !.start_pos = node_pos,
                                 !.range = <<ix, ix>>,
                                 !.current = @ \o in.labels[node]]
            ELSE [st EXCEPT !.open = TRUE,
                            !.start_pos = node_pos,
                            !.range = <<ix, ix>>,
                            !.current = in.labels[node]]

\* The body of the loop over steps.iter().enumerate(): the open cluster is
\* (cluster_range_ix, cluster_start_pos, current_cluster), the closed ones
\* are the entries of the map `clusters`.
ScanStep(in, scale, radius, ix, st) ==
    LET node == in.steps[ix]
    IN  IF node \notin DOMAIN in.labels THEN st
        ELSE
        LET node_pos == Center(in.nodes[node])
        IN  IF st.open
            THEN IF WithinRadius(node_pos, st.start_pos, scale, radius)
                 THEN [st EXCEPT !.range = <<st.range[1], ix>>,
                                 !.current = @ \o in.labels[node]]
                 ELSE [st EXCEPT !.clusters = @ \cup
                                     {[range |-> st.range,
                                       label_indices |-> st.current]},
                                 !.start_pos = node_pos,
                                 !.range = <<ix, ix>>,
                                 !.current = in.labels[node]]
            ELSE [st EXCEPT !.open = TRUE,
                            !.start_pos = node_pos,
                            !.range = <<ix, ix>>,
                            !.current = in.labels[node]]

RECURSIVE ScanFrom(_, _, _, _, _)
ScanFrom(in, scale, radius, ix, st) ==
    IF ix > Len(in.steps) THEN st
    ELSE ScanFrom(in, scale, radius, ix + 1,
                  ScanStep(in, scale, radius, ix, st))

ScanSteps(in, scale, radius) == ScanFrom(in, scale, radius, 1, NoOpenCluster)

\* The entries of `clusters` when the second loop starts.
ClosedClusters(in, scale, radius) == ScanSteps(in, scale, radius).clusters

\* The order in which the hash map `clusters` yields its entries: fixed by
\* the hasher and the keys, not by the program.
RECURSIVE IterationOrder(_, _)
IterationOrder(clusters, order) ==
    IF clusters = {} THEN << >>
    ELSE LET c == CHOOSE x \in clusters :
                     \A y \in clusters :
                         IF order = "asc" THEN x.range[1] <= y.range[1]
                         ELSE x.range[1] >= y.range[1]
         IN  <<c>> \o IterationOrder(clusters \ {c}, order)

\* Variant: the middle index rounds down.
MidIndexLow(start, end) == start + (end - start) \div 2

\* slice = &steps[start..=end]; slice[slice.len() / 2]
MidIndex(start, end) == start + (end - start + 1) \div 2

\* The rotated, normalized vector from the first node's p0 to the last
\* node's p1: on a line one of two directions, NaN for a zero vector.
OffsetDirection(start_p, end_p) ==
    IF end_p > start_p THEN "left"
    ELSE IF end_p < start_p THEN "right"
    ELSE "nan"

\* Variant: the offset is pushed before offset_ix is read.
RECURSIVE RecordClustersPushFirst(_, _, _)
RecordClustersPushFirst(in, cs, acc) ==
    IF cs = << >> THEN acc
    ELSE
    LET c       == Head(cs)
        start   == c.range[1]
        end     == c.range[2]
        mid     == in.steps[MidIndex(start, end)]
        offset  == OffsetDirection(in.nodes[in.steps[start]].p0,
                                   in.nodes[in.steps[end]].p1)
        pushed  == Append(acc.cluster_offsets, offset)
        indices == [label_indices |-> c.label_indices,
                    offset_ix     |-> Len(pushed),
                    range         |-> c.range]
    IN  RecordClustersPushFirst(in, Tail(cs),
            [node_labels     |-> (mid :> indices) @@ acc.node_labels,
             cluster_offsets |-> pushed])

\* The body of the loop over `clusters`; range is kept with the entry to
\* say which cluster it is.
RECURSIVE RecordClusters(_, _, _)
RecordClusters(in, cs, acc) ==
    IF cs = << >> THEN acc
    ELSE
    LET c       == Head(cs)
        start   == c.range[1]
        end     == c.range[2]
        mid     == in.steps[MidIndex(start, end)]
        offset  == OffsetDirection(in.nodes[in.steps[start]].p0,
                                   in.nodes[in.steps[end]].p1)
        indices == [label_indices |-> c.label_indices,
                    offset_ix     |-> Len(acc.cluster_offsets),
                    range         |-> c.range]
    IN  RecordClusters(in, Tail(cs),
            [node_labels     |-> (mid :> indices) @@ acc.node_labels,
             cluster_offsets |-> Append(acc.cluster_offsets, offset)])

\* ClusterCache::new_cluster(steps, nodes, label_set, view, radius)
BuildClusters(in, scale, radius) ==
    LET built == RecordClusters(in,
                     IterationOrder(ClosedClusters(in, scale, radius),
                                    in.order),
                     [node_labels |-> << >>, cluster_offsets |-> << >>])
    IN  [node_labels     |-> built.node_labels,
         cluster_offsets |-> built.cluster_offsets,
         view_scale      |-> scale,
         radius          |-> radius]

\* Variant: the offsets are cleared, the anchors are kept.
ClearedOffsetsOnly(cache) ==
    [node_labels |-> cache.node_labels, cluster_offsets |-> << >>]

\* self.cluster_offsets.clear(); self.node_labels.clear();
Cleared(cache) == [node_labels |-> << >>, cluster_offsets |-> << >>]

\* ClusterCache::rebuild_cluster past its early return: the new scale and
\* radius are stored, the cache is cleared and filled by the same two loops.
RebuildClusters(cache, in, scale, radius) ==
    LET built == RecordClusters(in,
                     IterationOrder(ClosedClusters(in, scale, radius),
                                    in.order),
                     Cleared(cache))
    IN  [node_labels     |-> built.node_labels,
         cluster_offsets |-> built.cluster_offsets,
         view_scale      |-> scale,
         radius          |-> radius]

\* Variant: a scale difference of exactly the epsilon still counts as
\* unchanged.
CacheValidWide(cache, scale, radius) ==
    Abs(scale - cache.view_scale) <= ScaleEps /\ radius = cache.radius

\* Variant: the scale is compared exactly.
CacheValidExact(cache, scale, radius) ==
    scale = cache.view_scale /\ radius = cache.radius

\* (view.scale - self.view_scale).abs() < 0.0001 && radius == self.radius
CacheValid(cache, scale, radius) ==
    Abs(scale - cache.view_scale) < ScaleEps /\ radius = cache.radius

\* The inputs of the model.  Layouts: three nodes in a row at distance 2; two
\* near and one far; two point nodes on one spot; nodes laid out leftwards.
Layouts ==
    {<<[p0 |-> -1, p1 |-> 1], [p0 |-> 1, p1 |-> 3], [p0 |-> 3, p1 |-> 5]>>,
     <<[p0 |-> -1, p1 |-> 1], [p0 |-> 1, p1 |-> 3], [p0 |-> 6, p1 |-> 8]>>,
     <<[p0 |-> 0, p1 |-> 0], [p0 |-> 0, p1 |-> 0], [p0 |-> 3, p1 |-> 3]>>,
     <<[p0 |-> 5, p1 |-> 3], [p0 |-> 3, p1 |-> 1], [p0 |-> 1, p1 |-> -1]>>}

LabelsOf(n) == IF n = 1 THEN <<0, 3>> ELSE <<n - 1>>

LabelSets == {[n \in S |-> LabelsOf(n)] : S \in SUBSET ClusterNodeIds}

StepPaths == UNION {[1..k -> ClusterNodeIds] : k \in 0..MaxPathLen}

Scales == {ScaleOne, ScaleOne + 1, ScaleOne + ScaleEps, 2 * ScaleOne}

Radii == {2, 3}

\* The worked example: labelled nodes at (0,0), (50,0), (200,0), radius 60.
ExampleLayout ==
    <<[p0 |-> -10, p1 |-> 10], [p0 |-> 40, p1 |-> 60],
      [p0 |-> 190, p1 |-> 210]>>

ExampleInput ==
    [steps |-> <<1, 2, 3>>, nodes |-> ExampleLayout,
     labels |-> [n \in ClusterNodeIds |-> LabelsOf(n)], order |-> "asc"]

ClusterInputs ==
    [steps : StepPaths, nodes : Layouts, labels : LabelSets,
     order : {"asc", "desc"}]
    \cup {ExampleInput}

\* A View: its centre (the pan) and its scale (the zoom).
Centers == {0, 7}

PanScales == {ScaleOne, 2 * ScaleOne}

Views == [center : Centers, scale : PanScales]

\* Variant: a projection that keeps every point on the screen's right half,
\* points left of the view centre landing on the centre line.
InViewClamped(in, view) ==
    [in EXCEPT !.nodes =
        [n \in DOMAIN in.nodes |->
            [p0 |-> IF in.nodes[n].p0 < view.center THEN 0
                    ELSE in.nodes[n].p0 - view.center,
             p1 |-> IF in.nodes[n].p1 < view.center THEN 0
                    ELSE in.nodes[n].p1 - view.center]]]

\* to_screen(p) = view.to_scaled_matrix() * p: the point relative to the
\* view centre, divided by the scale.  The centre is subtracted here, the
\* division is in WithinRadius.  The offset direction is taken from world
\* positions; it is the direction of a difference, the same before and
\* after the shift.
InView(in, view) ==
    [in EXCEPT !.nodes =
        [n \in DOMAIN in.nodes |->
            [p0 |-> in.nodes[n].p0 - view.center,
             p1 |-> in.nodes[n].p1 - view.center]]]

\* Longer paths, for a single build: long enough for three closed clusters
\* and for a closed cluster with an unlabelled step inside.
MaxScanLen == 4

ScanPaths == UNION {[1..k -> ClusterNodeIds] : k \in 0..MaxScanLen}

ScanInputs ==
    [steps : ScanPaths, nodes : Layouts, labels : LabelSets,
     order : {"asc", "desc"}]

\* ------------------------------------------------------------- requests

GraphStatsReq == [tag |-> "GraphStats"]
NodeStatsReq(n) == [tag |-> "NodeStats", node_id |-> n]
PathStatsReq(p) == [tag |-> "PathStats", path_id |-> p]
NodeSeqReq(n) == [tag |-> "NodeSeq", node_id |-> n]

GraphQueryRequest ==
    {GraphStatsReq}
    \cup {NodeStatsReq(n) : n \in NodeIds}
    \cup {PathStatsReq(p) : p \in PathIds}
    \cup {NodeSeqReq(n) : n \in NodeIds}

\* Variant: every request is answered with the graph-wide statistics.
RespondGraphStatsOnly(g, r) ==
    [tag |-> "GraphStats",
     node_count |-> Cardinality(g.nodes),
     edge_count |-> Cardinality(g.edges),
     path_count |-> Len(g.paths),
     total_len  |-> SumLen(g, g.nodes)]

\* Variant: the two sides of the degree pair are exchanged.
RespondDegreeSwapped(g, r) ==
    CASE r.tag = "GraphStats" -> RespondGraphStatsOnly(g, r)
      [] r.tag = "NodeStats" ->
           LET handle == Pack(r.node_id, FALSE)
           IN  [tag |-> "NodeStats",
                node_id  |-> r.node_id,
                len      |-> Len(g.seq[r.node_id]),
                degree   |-> <<Degree(g, handle, "Right"),
                               Degree(g, handle, "Left")>>,
                coverage |-> Coverage(g, handle)]
      [] r.tag = "PathStats" ->
           [tag |-> "PathStats",
            path_id    |-> r.path_id,
            step_count |-> IF r.path_id \in DOMAIN g.paths
                           THEN Len(g.paths[r.path_id]) ELSE 0]
      [] r.tag = "NodeSeq" ->
           [tag |-> "NodeSeq",
            node_id |-> r.node_id,
            seq     |-> g.seq[r.node_id],
            len     |-> Len(g.seq[r.node_id])]

\* The match over the request in the query thread's loop.
Respond(g, r) ==
    CASE r.tag = "GraphStats" ->
           [tag |-> "GraphStats",
            node_count |-> Cardinality(g.nodes),
            edge_count |-> Cardinality(g.edges),
            path_count |-> Len(g.paths),
            total_len  |-> SumLen(g, g.nodes)]
      [] r.tag = "NodeStats" ->
           LET handle == Pack(r.node_id, FALSE)
           IN  [tag |-> "NodeStats",
                node_id  |-> r.node_id,
                len      |-> Len(g.seq[r.node_id]),
                degree   |-> <<Degree(g, handle, "Left"),
                               Degree(g, handle, "Right")>>,
                coverage |-> Coverage(g, handle)]
      [] r.tag = "PathStats" ->
           [tag |-> "PathStats",
            path_id    |-> r.path_id,
            step_count |-> IF r.path_id \in DOMAIN g.paths
                           THEN Len(g.paths[r.path_id]) ELSE 0]
      [] r.tag = "NodeSeq" ->
           LET seq == g.seq[r.node_id]
           IN  [tag |-> "NodeSeq",
                node_id |-> r.node_id,
                seq     |-> seq,
                len     |-> Len(seq)]

\* Variant: path_len's Option is unwrapped too.
ReadPanicsPathToo(g, r) ==
    \/ r.tag \in {"NodeStats", "NodeSeq"} /\ r.node_id \notin g.nodes
    \/ r.tag = "PathStats" /\ r.path_id \notin DOMAIN g.paths

\* PackedGraph's node accessors (node_len, degree, sequence_vec) unwrap the
\* node's record: a request that names a node the graph does not hold panics
\* the query thread.  path_len and steps_on_handle return an Option.
ReadPanics(g, r) ==
    /\ r.tag \in {"NodeStats", "NodeSeq"}
    /\ r.node_id \notin g.nodes

NoReq == [from |-> 0, msg |-> [tag |-> "None"]]
NoResp == [for |-> 0, msg |-> [tag |-> "None"]]

\* ------------------------------------------------------------- state

VARIABLES
    graph,      \* GraphQuery.graph: Arc<PackedGraph>
    facade,     \* "live" | "dropped": whether the GraphQuery still exists
    pc,         \* per caller: its position in request_blocking
    req,        \* per caller: the request of its current (or last) call
    result,     \* per caller: what its last call returned
    reqCh,      \* the request channel: offers not yet taken by the thread
    respCh,     \* the response channel: responses not yet taken by a caller
    thPc,       \* the query thread's position in its loop
    thReq,      \* the query thread's local `request`
    accLog,     \* ghost: the requests the thread has received, in order
    ansLog,     \* ghost: the responses the thread has sent, in order
    calls,      \* ghost: operations started so far (bounded by MaxCalls)
    path_positions, \* GraphQuery.path_positions: Arc<PathPositionMap>
    obs,        \* what the last direct read of the store returned
    task,       \* per run_query invocation: the pool task and its handle
    psr,        \* a call of path_step_range: its arguments and its outcome
    pn,         \* a call of a path-name parser: its argument and its outcome
    cc,         \* a ClusterCache, the inputs it is built from, the last call
                \* on it, and (ghost) the scan loop's variables at its exit
    ls,         \* an AnnotationLabelSet, its holders and its visibility cell
    an          \* an Annotations registry and the label sets made for it

qvars == <<pc, req, result, reqCh, respCh, thPc, thReq, accLog, ansLog>>
store == <<graph, path_positions>>
annot == <<psr, pn, cc, ls, an>>
vars == <<graph, path_positions, facade, pc, req, result, reqCh, respCh,
          thPc, thReq, accLog, ansLog, calls, obs, task, psr, pn,
          cc, ls, an>>

NoTask == [st |-> "none", handle |-> "none", op |-> "none", val |-> -1,
           got |-> -1]

\* channel::bounded::<GraphQueryResp>(0) and channel::bounded::<GraphQueryRequest>(0)
RespCap == 0
ReqCap == 0

ServiceInit ==
    /\ graph \in Graphs
    /\ facade = "live"
    /\ pc = [c \in Callers |-> "idle"]
    /\ req = [c \in Callers |-> NoReq.msg]
    /\ result = [c \in Callers |-> NoResp]
    /\ reqCh = << >>
    /\ respCh = << >>
    /\ thPc = "recv"
    /\ thReq = NoReq
    /\ accLog = << >>
    /\ ansLog = << >>
    /\ calls = 0
    /\ path_positions = IndexPaths(graph)
    /\ obs = [op |-> "none"]
    /\ task = [t \in Tasks |-> NoTask]

\* No call of path_step_range, no call of a path-name parser.
NoRange == [st |-> "none"]
NoName == [st |-> "none"]
NoCache == [st |-> "none"]
NoLabelSet == [st |-> "none"]
NoRegistry == [st |-> "none"]

Init ==
    ServiceInit /\ psr = NoRange /\ pn = NoName /\ cc = NoCache
                /\ ls = NoLabelSet /\ an = NoRegistry

\* ------------------------------------------------------------- channels

ReqOffered(c) == \E i \in DOMAIN reqCh : reqCh[i].from = c

\* req_tx.send(request) returns Ok once the caller's message is no longer
\* waiting beyond the channel's capacity.
ReqSendDone(c) == ~ \E i \in DOMAIN reqCh : i > ReqCap /\ reqCh[i].from = c

\* Variant: a response channel that buffers one message.
RespSendDoneBuffered == Len(respCh) <= 1

\* resp_tx.send(resp) returns Ok once the response is no longer waiting
\* beyond the channel's capacity.
RespSendDone == Len(respCh) <= RespCap

\* Variant: the endpoints outlive a panic of the thread.
ThreadEndpointsLeaked == thPc = "stopped"

\* The thread's closure owns req_rx and resp_tx; both are dropped when the
\* closure ends, by leaving the loop or by unwinding from a panic.
ThreadEndpointsDropped == thPc \in {"stopped", "panicked"}

RemoveOffer(c) == SelectSeq(reqCh, LAMBDA m : m.from # c)

\* ------------------------------------------------------------- callers

\* query_request_blocking(request) -> request_blocking: req_tx.send(request)
Call(c, r) ==
    /\ facade = "live"
    /\ pc[c] = "idle"
    /\ calls < MaxCalls
    /\ calls' = calls + 1
    /\ pc' = [pc EXCEPT ![c] = "send"]
    /\ req' = [req EXCEPT ![c] = r]
    /\ result' = [result EXCEPT ![c] = NoResp]
    /\ reqCh' = Append(reqCh, [from |-> c, msg |-> r])
    /\ UNCHANGED <<store, facade, respCh, thPc, thReq, accLog, ansLog, obs, task, annot>>

\* send returned Ok: the caller goes on to resp_rx.recv()
CallerSendReturn(c) ==
    /\ pc[c] = "send"
    /\ ReqSendDone(c)
    /\ pc' = [pc EXCEPT ![c] = "recv"]
    /\ UNCHANGED <<store, facade, req, result, reqCh, respCh, thPc, thReq,
                   accLog, ansLog, calls, obs, task, annot>>

\* Variant: a failed send is answered with a default response.
CallerSendFailDefault(c) ==
    /\ pc[c] = "send"
    /\ ReqOffered(c)
    /\ ThreadEndpointsDropped
    /\ reqCh' = RemoveOffer(c)
    /\ pc' = [pc EXCEPT ![c] = "idle"]
    /\ result' = [result EXCEPT ![c] =
                     [for |-> c, msg |-> [tag |-> "PathStats", path_id |-> 0,
                                          step_count |-> 0]]]
    /\ UNCHANGED <<store, facade, req, respCh, thPc, thReq, accLog, ansLog,
                   calls, obs, task, annot>>

\* send returned Err(SendError): the receiver is gone; unwrap() panics
CallerSendFail(c) ==
    /\ pc[c] = "send"
    /\ ReqOffered(c)
    /\ ThreadEndpointsDropped
    /\ reqCh' = RemoveOffer(c)
    /\ pc' = [pc EXCEPT ![c] = "panicked"]
    /\ UNCHANGED <<store, facade, req, result, respCh, thPc, thReq, accLog, ansLog,
                   calls, obs, task, annot>>

\* resp_rx.recv() returned Ok(resp): request_blocking returns resp
CallerRecv(c) ==
    /\ pc[c] = "recv"
    /\ respCh # << >>
    /\ result' = [result EXCEPT ![c] = Head(respCh)]
    /\ respCh' = Tail(respCh)
    /\ pc' = [pc EXCEPT ![c] = "idle"]
    /\ UNCHANGED <<store, facade, req, reqCh, thPc, thReq, accLog, ansLog, calls,
                   obs, task, annot>>

\* Variant: the receive gives up on an empty channel (a timeout).
CallerRecvFailTimeout(c) ==
    /\ pc[c] = "recv"
    /\ respCh = << >>
    /\ pc' = [pc EXCEPT ![c] = "panicked"]
    /\ UNCHANGED <<store, facade, req, result, reqCh, respCh, thPc, thReq,
                   accLog, ansLog, calls, obs, task, annot>>

\* resp_rx.recv() returned Err(RecvError): the channel is empty and its
\* sender is gone; unwrap() panics
CallerRecvFail(c) ==
    /\ pc[c] = "recv"
    /\ respCh = << >>
    /\ ThreadEndpointsDropped
    /\ pc' = [pc EXCEPT ![c] = "panicked"]
    /\ UNCHANGED <<store, facade, req, result, reqCh, respCh, thPc, thReq,
                   accLog, ansLog, calls, obs, task, annot>>

\* The last owner lets go of the GraphQuery: no call is in progress (a call
\* borrows the GraphQuery).  req_tx and resp_rx are dropped.
DropFacade ==
    /\ facade = "live"
    /\ \A c \in Callers : pc[c] \in {"idle", "panicked"}
    /\ \A t \in Tasks : task[t].st \in {"none", "done"}
    /\ facade' = "dropped"
    /\ UNCHANGED <<store, pc, req, result, reqCh, respCh, thPc, thReq, accLog,
                   ansLog, calls, obs, task, annot>>

\* ------------------------------------------------------------- query thread

\* while let Ok(request) = req_rx.recv()
ThreadRecv ==
    /\ thPc = "recv"
    /\ reqCh # << >>
    /\ thReq' = Head(reqCh)
    /\ reqCh' = Tail(reqCh)
    /\ thPc' = "proc"
    /\ accLog' = Append(accLog, Head(reqCh))
    /\ UNCHANGED <<store, facade, pc, req, result, respCh, ansLog, calls, obs,
                   task, annot>>

\* Variant: try_recv for recv: the loop ends when no request is waiting.
ThreadRecvClosedOrEmpty ==
    /\ thPc = "recv"
    /\ reqCh = << >>
    /\ thPc' = "stopped"
    /\ UNCHANGED <<store, facade, pc, req, result, reqCh, respCh, thReq, accLog,
                   ansLog, calls, obs, task, annot>>

\* req_rx.recv() returned Err: every sender is gone; the loop ends
ThreadRecvClosed ==
    /\ thPc = "recv"
    /\ reqCh = << >>
    /\ facade = "dropped"
    /\ thPc' = "stopped"
    /\ UNCHANGED <<store, facade, pc, req, result, reqCh, respCh, thReq, accLog,
                   ansLog, calls, obs, task, annot>>

\* Variant: a PathStats request for an absent path is dropped unanswered.
ThreadProcessNoReply ==
    /\ thPc = "proc"
    /\ ~ ReadPanics(graph, thReq.msg)
    /\ IF thReq.msg.tag = "PathStats" /\ thReq.msg.path_id \notin DOMAIN graph.paths
       THEN /\ thPc' = "recv"
            /\ UNCHANGED <<respCh, ansLog>>
       ELSE /\ LET resp == [for |-> thReq.from,
                            msg |-> Respond(graph, thReq.msg)]
               IN  /\ respCh' = Append(respCh, resp)
                   /\ ansLog' = Append(ansLog, resp)
            /\ thPc' = "send"
    /\ UNCHANGED <<store, facade, pc, req, result, reqCh, thReq, accLog, calls,
                   obs, task, annot>>

\* Variant: the thread keeps a count of the requests it has answered and
\* adds it to the step count of a PathStats response.
ThreadProcessCounting ==
    /\ thPc = "proc"
    /\ ~ ReadPanics(graph, thReq.msg)
    /\ LET plain == Respond(graph, thReq.msg)
           resp  == [for |-> thReq.from,
                     msg |-> IF plain.tag = "PathStats"
                             THEN [plain EXCEPT !.step_count = @ + Len(ansLog)]
                             ELSE plain]
       IN  /\ respCh' = Append(respCh, resp)
           /\ ansLog' = Append(ansLog, resp)
    /\ thPc' = "send"
    /\ UNCHANGED <<store, facade, pc, req, result, reqCh, thReq, accLog, calls,
                   obs, task, annot>>

\* let resp = match request {...}; resp_tx.send(resp)
ThreadProcess ==
    /\ thPc = "proc"
    /\ ~ ReadPanics(graph, thReq.msg)
    /\ LET resp == [for |-> thReq.from, msg |-> Respond(graph, thReq.msg)]
       IN  /\ respCh' = Append(respCh, resp)
           /\ ansLog' = Append(ansLog, resp)
    /\ thPc' = "send"
    /\ UNCHANGED <<store, facade, pc, req, result, reqCh, thReq, accLog, calls,
                   obs, task, annot>>

\* a graph accessor panics inside the match: the closure unwinds
ThreadPanic ==
    /\ thPc = "proc"
    /\ ReadPanics(graph, thReq.msg)
    /\ thPc' = "panicked"
    /\ UNCHANGED <<store, facade, pc, req, result, reqCh, respCh, thReq, accLog,
                   ansLog, calls, obs, task, annot>>

\* Variant: the send does not wait for a receiver (try_send).
ThreadSendReturnNoWait ==
    /\ thPc = "send"
    /\ thPc' = "recv"
    /\ thReq' = NoReq
    /\ UNCHANGED <<store, facade, pc, req, result, reqCh, respCh, accLog, ansLog,
                   calls, obs, task, annot>>

\* Variant: `if let` for `while let`: the thread serves one request.
ThreadSendReturnOnce ==
    /\ thPc = "send"
    /\ RespSendDone
    /\ thPc' = "stopped"
    /\ thReq' = NoReq
    /\ UNCHANGED <<store, facade, pc, req, result, reqCh, respCh, accLog, ansLog,
                   calls, obs, task, annot>>

\* resp_tx.send(resp) returned Ok: back to the head of the loop
ThreadSendReturn ==
    /\ thPc = "send"
    /\ RespSendDone
    /\ thPc' = "recv"
    /\ thReq' = NoReq
    /\ UNCHANGED <<store, facade, pc, req, result, reqCh, respCh, accLog, ansLog,
                   calls, obs, task, annot>>

\* ------------------------------------------------------------- direct reads

\* GraphQuery::node_count()
NodeCount ==
    /\ facade = "live"
    /\ calls < MaxCalls
    /\ calls' = calls + 1
    /\ obs' = [op |-> "node_count", val |-> Cardinality(graph.nodes)]
    /\ UNCHANGED <<store, facade, qvars, task, annot>>

\* Variant: the lookup drops the looked-up node's steps from the index.
HandlePositionsCaching(h) ==
    /\ facade = "live"
    /\ calls < MaxCalls
    /\ calls' = calls + 1
    /\ obs' = [op |-> "handle_positions",
               val |-> HandlePositionsOf(path_positions, graph, h)]
    /\ path_positions' = [p \in DOMAIN path_positions |->
                            [i \in DOMAIN path_positions[p] |->
                                IF <<p, i>> \in StepsOnHandle(graph, h)
                                THEN 0 ELSE path_positions[p][i]]]
    /\ UNCHANGED <<graph, facade, qvars, task, annot>>

\* GraphQuery::handle_positions(handle)
HandlePositions(h) ==
    /\ facade = "live"
    /\ calls < MaxCalls
    /\ calls' = calls + 1
    /\ obs' = [op |-> "handle_positions",
               val |-> HandlePositionsOf(path_positions, graph, h)]
    /\ UNCHANGED <<store, facade, qvars, task, annot>>

\* GraphQuery::build_overlay_colors(f)
BuildOverlayColors(f) ==
    /\ facade = "live"
    /\ calls < MaxCalls
    /\ calls' = calls + 1
    /\ \E hs \in Enumerations(graph) :
          obs' = [op |-> "overlay", f |-> f, enum |-> hs,
                  fcalls |-> OverlayCalls(hs),
                  val |-> OverlayColors(graph, f, hs)]
    /\ UNCHANGED <<store, facade, qvars, task, annot>>

\* ------------------------------------------------------------- worker

Running == {t \in Tasks : task[t].st = "running"}

\* Variant: the future is built but never handed to the pool.
RunQueryNotSpawned(t, op) ==
    /\ facade = "live"
    /\ task[t].st = "none"
    /\ calls < MaxCalls
    /\ calls' = calls + 1
    /\ task' = [task EXCEPT ![t] = [st |-> "created", handle |-> "held",
                                    op |-> op, val |-> -1, got |-> -1]]
    /\ UNCHANGED <<store, facade, qvars, obs, annot>>

\* GraphQueryWorker::run_query(query): the future is built from a clone of
\* the shared GraphQuery and handed to the thread pool; the AsyncResult
\* handle is returned at once.
RunQuery(t, op) ==
    /\ facade = "live"
    /\ task[t].st = "none"
    /\ calls < MaxCalls
    /\ calls' = calls + 1
    /\ task' = [task EXCEPT ![t] = [st |-> "queued", handle |-> "held",
                                    op |-> op, val |-> -1, got |-> -1]]
    /\ UNCHANGED <<store, facade, qvars, obs, annot>>

\* a pool worker picks the task up
PoolStart(t) ==
    /\ task[t].st = "queued"
    /\ Cardinality(Running) < PoolWorkers
    /\ task' = [task EXCEPT ![t].st = "running"]
    /\ UNCHANGED <<store, facade, qvars, obs, calls, annot>>

\* the operation ran to completion on the pool: its output is stored and
\* the handle's ready flag is set
PoolFinish(t) ==
    /\ task[t].st = "running"
    /\ task' = [task EXCEPT ![t].st = "done",
                            ![t].val = OpValue(graph, task[t].op)]
    /\ UNCHANGED <<store, facade, qvars, obs, calls, annot>>

\* the caller polls its handle without blocking: the value if ready
Poll(t) ==
    /\ task[t].handle = "held"
    /\ task[t].st = "done"
    /\ task' = [task EXCEPT ![t].handle = "taken", ![t].got = task[t].val]
    /\ UNCHANGED <<store, facade, qvars, obs, calls, annot>>

\* Variant: discarding the handle cancels an operation that has not finished.
DetachCancels(t) ==
    /\ task[t].handle = "held"
    /\ task' = [task EXCEPT ![t].handle = "detached",
                            ![t].st = IF task[t].st = "done" THEN "done"
                                      ELSE "cancelled"]
    /\ UNCHANGED <<store, facade, qvars, obs, calls, annot>>

\* the caller discards (detaches) its handle
Detach(t) ==
    /\ task[t].handle = "held"
    /\ task' = [task EXCEPT ![t].handle = "detached"]
    /\ UNCHANGED <<store, facade, qvars, obs, calls, annot>>

\* ------------------------------------------------------------- step ranges
\* One call of path_step_range on arguments drawn from the bounded sets.

Offsets == {None} \cup {Some(v) : v \in 0..MaxPos}

RangeArgs ==
    [steps : StepArrays, offset : Offsets,
     start : 0..(MaxPos + 1), end : 0..(MaxPos + 1),
     overflow_checks : BOOLEAN]
    \cup
    [steps : {ExampleSteps}, offset : {None, Some(0)},
     start : {15}, end : {35}, overflow_checks : BOOLEAN]

RangeInit ==
    /\ ServiceInit
    /\ graph = GraphA
    /\ pn = NoName
    /\ cc = NoCache
    /\ ls = NoLabelSet
    /\ an = NoRegistry
    /\ \E a \in RangeArgs : psr = [st |-> "args", args |-> a]

PathStepRangeCall ==
    /\ psr.st = "args"
    /\ LET a == psr.args
       IN  psr' = [st |-> "done", args |-> a,
                   out |-> PathStepRange(a.steps, a.offset, a.start, a.end,
                                         a.overflow_checks)]
    /\ UNCHANGED <<store, qvars, facade, calls, obs, task, pn, cc, ls, an>>

RangeNext == PathStepRangeCall

RangeSpec == RangeInit /\ [][RangeNext]_vars

\* ------------------------------------------------------------- name parsers
\* One call of one of the path-name parsers on a name of the bounded set.

NameInit ==
    /\ ServiceInit
    /\ graph = GraphA
    /\ psr = NoRange
    /\ cc = NoCache
    /\ ls = NoLabelSet
    /\ an = NoRegistry
    /\ \E n \in Names : pn = [st |-> "args", name |-> n]

PathNameChrRange ==
    /\ pn.st = "args"
    /\ pn' = [st |-> "done", name |-> pn.name, fn |-> "path_name_chr_range",
              out |-> PathNameChrRangeOf(pn.name)]
    /\ UNCHANGED <<store, qvars, facade, calls, obs, task, psr, cc, ls, an>>

PathNameRange ==
    /\ pn.st = "args"
    /\ pn' = [st |-> "done", name |-> pn.name, fn |-> "path_name_range",
              out |-> PathNameRangeOf(pn.name)]
    /\ UNCHANGED <<store, qvars, facade, calls, obs, task, psr, cc, ls, an>>

PathNameOffset ==
    /\ pn.st = "args"
    /\ pn' = [st |-> "done", name |-> pn.name, fn |-> "path_name_offset",
              out |-> PathNameOffsetOf(pn.name)]
    /\ UNCHANGED <<store, qvars, facade, calls, obs, task, psr, cc, ls, an>>

NameNext == PathNameChrRange \/ PathNameRange \/ PathNameOffset

NameSpec == NameInit /\ [][NameNext]_vars

\* ------------------------------------------------------------- cluster cache
\* A ClusterCache built once with new_cluster and then asked to rebuild.

ClusterInit ==
    /\ ServiceInit
    /\ graph = GraphA
    /\ psr = NoRange
    /\ pn = NoName
    /\ ls = NoLabelSet
    /\ an = NoRegistry
    /\ \E in \in ClusterInputs : cc = [st |-> "args", in |-> in]

RadiiOf(in) == IF in = ExampleInput THEN {60} ELSE Radii

AllRadii == Radii \cup RadiiOf(ExampleInput)

NewCluster(scale, radius) ==
    /\ cc.st = "args"
    /\ radius \in RadiiOf(cc.in)
    /\ cc' = [st |-> "built", in |-> cc.in,
              cache |-> BuildClusters(cc.in, scale, radius),
              scan |-> ScanSteps(cc.in, scale, radius),
              call |-> [fn |-> "new_cluster", scale |-> scale,
                        radius |-> radius, ret |-> TRUE],
              n |-> 0]
    /\ UNCHANGED <<store, qvars, facade, calls, obs, task, psr, pn, ls, an>>

\* ClusterCache::rebuild_cluster(steps, nodes, view, radius) -> bool, on
\* the steps and nodes the cache was built from.
RebuildCluster(scale, radius) ==
    /\ cc.st = "built"
    /\ cc.n < MaxCalls
    /\ radius \in RadiiOf(cc.in)
    /\ IF CacheValid(cc.cache, scale, radius)
       THEN cc' = [cc EXCEPT !.call = [fn |-> "rebuild_cluster",
                                       scale |-> scale, radius |-> radius,
                                       ret |-> FALSE],
                             !.n = @ + 1]
       ELSE cc' = [cc EXCEPT !.cache = RebuildClusters(cc.cache, cc.in,
                                                      scale, radius),
                             !.scan = ScanSteps(cc.in, scale, radius),
                             !.call = [fn |-> "rebuild_cluster",
                                       scale |-> scale, radius |-> radius,
                                       ret |-> TRUE],
                             !.n = @ + 1]
    /\ UNCHANGED <<store, qvars, facade, calls, obs, task, psr, pn, ls, an>>

ClusterNext ==
    \/ \E scale \in Scales : \E radius \in AllRadii :
          NewCluster(scale, radius)
    \/ \E scale \in Scales : \E radius \in AllRadii :
          RebuildCluster(scale, radius)

ClusterSpec == ClusterInit /\ [][ClusterNext]_vars

\* A ClusterCache built and rebuilt under views that differ in their centre
\* as well as in their scale; `at` is the view of the last actual build.
NewClusterAt(view, radius) ==
    /\ cc.st = "args"
    /\ radius \in RadiiOf(cc.in)
    /\ cc' = [st |-> "built", in |-> cc.in,
              cache |-> BuildClusters(InView(cc.in, view), view.scale,
                                      radius),
              scan |-> ScanSteps(InView(cc.in, view), view.scale, radius),
              at |-> view,
              call |-> [fn |-> "new_cluster", scale |-> view.scale,
                        center |-> view.center,
                        radius |-> radius, ret |-> TRUE],
              n |-> 0]
    /\ UNCHANGED <<store, qvars, facade, calls, obs, task, psr, pn, ls, an>>

RebuildClusterAt(view, radius) ==
    /\ cc.st = "built"
    /\ cc.n < MaxCalls
    /\ radius \in RadiiOf(cc.in)
    /\ IF CacheValid(cc.cache, view.scale, radius)
       THEN cc' = [cc EXCEPT !.call = [fn |-> "rebuild_cluster",
                                       scale |-> view.scale,
                                       center |-> view.center,
                                       radius |-> radius, ret |-> FALSE],
                             !.n = @ + 1]
       ELSE cc' = [cc EXCEPT !.cache = RebuildClusters(cc.cache,
                                           InView(cc.in, view),
                                           view.scale, radius),
                             !.scan = ScanSteps(InView(cc.in, view),
                                                view.scale, radius),
                             !.at = view,
                             !.call = [fn |-> "rebuild_cluster",
                                       scale |-> view.scale,
                                       center |-> view.center,
                                       radius |-> radius, ret |-> TRUE],
                             !.n = @ + 1]
    /\ UNCHANGED <<store, qvars, facade, calls, obs, task, psr, pn, ls, an>>

PanNext ==
    \/ \E view \in Views : \E radius \in AllRadii :
          NewClusterAt(view, radius)
    \/ \E view \in Views : \E radius \in AllRadii :
          RebuildClusterAt(view, radius)

PanSpec == ClusterInit /\ [][PanNext]_vars

\* One new_cluster call on a path of up to MaxScanLen steps.
ScanInit ==
    /\ ServiceInit
    /\ graph = GraphA
    /\ psr = NoRange
    /\ pn = NoName
    /\ ls = NoLabelSet
    /\ an = NoRegistry
    /\ \E in \in ScanInputs : cc = [st |-> "args", in |-> in]

ScanNext == \E scale \in Scales : \E radius \in Radii :
                NewCluster(scale, radius)

ScanSpec == ScanInit /\ [][ScanNext]_vars

\* ------------------------------------------------------------- label sets
\* One AnnotationLabelSet and the owners that come to hold it.  A holder
\* refers to an object (several holders to the same object when they are
\* Arc<AnnotationLabelSet> owners); an object has its plain fields and
\* `show`, a reference to an AtomicCell<bool>; a struct clone is a new object.

NumHolders == 3

Holders == 1..NumHolders

\* the fields of AnnotationLabelSet other than `show`
LabelSetFields ==
    [annotation_name : {"a.gff"}, label_set_name : {"genes"},
     column_str : {"name"}, path_id : {0}, path_name : {"chr1"},
     label_strings : {<<"x", "y", "z", "w">>}, labels : LabelSets]

\* a derived Clone that gives the copy an atomic cell of its own
CloneShowDetached(cells, show, fresh) ==
    [cells |-> (fresh :> cells[show]) @@ cells, show |-> fresh]

\* #[derive(Clone)] on the field show: Arc<AtomicCell<bool>> is Arc::clone:
\* the copy refers to the same cell, no cell is made.
CloneShow(cells, show, fresh) == [cells |-> cells, show |-> show]

\* AnnotationLabelSet::new: show = Arc::new(true.into()), held by holder 1.
LabelInit ==
    /\ ServiceInit
    /\ graph = GraphA
    /\ psr = NoRange
    /\ pn = NoName
    /\ cc = NoCache
    /\ an = NoRegistry
    /\ \E f \in LabelSetFields :
          ls = [st |-> "live",
                objs |-> (1 :> [fields |-> f, show |-> 1]),
                cells |-> (1 :> TRUE),
                holds |-> [h \in Holders |-> IF h = 1 THEN 1 ELSE 0],
                last |-> [by |-> 0, val |-> TRUE],
                op |-> [fn |-> "new", by |-> 1]]

Holding(h) == ls.holds[h] # 0

\* Arc::clone of an Arc<AnnotationLabelSet> (as new_cluster does for
\* ClusterCache.label_set): holder h becomes another owner of g's object.
ArcClone(g, h) ==
    /\ ls.st = "live"
    /\ Holding(g)
    /\ ~Holding(h)
    /\ ls' = [ls EXCEPT !.holds[h] = ls.holds[g],
                        !.op = [fn |-> "arc_clone", by |-> h]]
    /\ UNCHANGED <<store, qvars, facade, calls, obs, task, psr, pn, cc, an>>

\* AnnotationLabelSet::clone (derived): holder h gets a new object, every
\* field cloned from g's.
StructClone(g, h) ==
    /\ ls.st = "live"
    /\ Holding(g)
    /\ ~Holding(h)
    /\ LET src == ls.objs[ls.holds[g]]
           cl == CloneShow(ls.cells, src.show, h)
       IN ls' = [ls EXCEPT !.objs = (h :> [fields |-> src.fields,
                                           show |-> cl.show]) @@ ls.objs,
                           !.cells = cl.cells,
                           !.holds[h] = h,
                           !.op = [fn |-> "clone", by |-> h]]
    /\ UNCHANGED <<store, qvars, facade, calls, obs, task, psr, pn, cc, an>>

\* set_visibility(&self, to): self.show.store(to), one atomic store.
SetVisibility(h, to) ==
    /\ ls.st = "live"
    /\ Holding(h)
    /\ ls' = [ls EXCEPT !.cells[ls.objs[ls.holds[h]].show] = to,
                        !.last = [by |-> h, val |-> to],
                        !.op = [fn |-> "set_visibility", by |-> h,
                                to |-> to]]
    /\ UNCHANGED <<store, qvars, facade, calls, obs, task, psr, pn, cc, an>>

\* is_visible(&self) -> bool: self.show.load(), one atomic load.
IsVisible(h) ==
    /\ ls.st = "live"
    /\ Holding(h)
    /\ ls' = [ls EXCEPT !.op = [fn |-> "is_visible", by |-> h,
                                ret |-> ls.cells[ls.objs[ls.holds[h]].show]]]
    /\ UNCHANGED <<store, qvars, facade, calls, obs, task, psr, pn, cc, an>>

LabelNext ==
    \/ \E g, h \in Holders : ArcClone(g, h)
    \/ \E g, h \in Holders : StructClone(g, h)
    \/ \E h \in Holders : \E to \in BOOLEAN : SetVisibility(h, to)
    \/ \E h \in Holders : IsVisible(h)

LabelSpec == LabelInit /\ [][LabelNext]_vars

\* ------------------------------------------------------------- annotations registry
\* struct Annotations: annot_names, a Vec of (name, file type); the two
\* record maps keyed by name; label_sets, a map from a name to an
\* Arc<AnnotationLabelSet>.  A label set is known by the number it was
\* created with, show[k] is its visibility cell.

MaxNames == 3
MaxSets == 3

FileNames == {"a", "b"}
RecordIds == {1, 2}
SetNames == {"genes", "exons"}
SetIds == 1..MaxSets

\* Variant: an existing entry is kept (entry().or_insert()).
MapInsertKeep(map, k, v) == map @@ (k :> v)

\* HashMap::insert: the value under an existing key is replaced
MapInsert(map, k, v) == (k :> v) @@ map

\* HashMap::remove
MapRemove(map, k) == [x \in DOMAIN map \ {k} |-> map[x]]

\* annot_names.retain(|(n, _)| n != name): the file type of the entry is
\* not looked at
RetainOthers(names, name) == SelectSeq(names, LAMBDA e : e[1] # name)

\* Annotations::default()
RegistryInit ==
    /\ ServiceInit
    /\ graph = GraphA
    /\ psr = NoRange
    /\ pn = NoName
    /\ cc = NoCache
    /\ ls = NoLabelSet
    /\ an = [st |-> "live",
             annot_names |-> << >>,
             gff3_annotations |-> << >>,
             bed_annotations |-> << >>,
             label_sets |-> << >>,
             show |-> << >>,
             free |-> {},
             latest |-> << >>,
             stored |-> << >>,
             op |-> [fn |-> "default"]]

RegistryUnchanged ==
    UNCHANGED <<store, qvars, facade, calls, obs, task, psr, pn, cc, ls>>

InsertGff3(name, records) ==
    /\ an.st = "live"
    /\ Len(an.annot_names) < MaxNames
    /\ an' = [an EXCEPT
                !.gff3_annotations = MapInsert(@, name, records),
                !.annot_names = Append(@, <<name, "Gff3">>),
                !.op = [fn |-> "insert_gff3", name |-> name]]
    /\ RegistryUnchanged

RemoveGff3(name) ==
    /\ an.st = "live"
    /\ an' = [an EXCEPT
                !.gff3_annotations = MapRemove(@, name),
                !.annot_names = RetainOthers(@, name),
                !.op = [fn |-> "remove_gff3", name |-> name]]
    /\ RegistryUnchanged

InsertBed(name, records) ==
    /\ an.st = "live"
    /\ Len(an.annot_names) < MaxNames
    /\ an' = [an EXCEPT
                !.bed_annotations = MapInsert(@, name, records),
                !.annot_names = Append(@, <<name, "Bed">>),
                !.op = [fn |-> "insert_bed", name |-> name]]
    /\ RegistryUnchanged

RemoveBed(name) ==
    /\ an.st = "live"
    /\ an' = [an EXCEPT
                !.bed_annotations = MapRemove(@, name),
                !.annot_names = RetainOthers(@, name),
                !.op = [fn |-> "remove_bed", name |-> name]]
    /\ RegistryUnchanged

FilesNext ==
    \/ \E name \in FileNames : \E r \in RecordIds : InsertGff3(name, r)
    \/ \E name \in FileNames : RemoveGff3(name)
    \/ \E name \in FileNames : \E r \in RecordIds : InsertBed(name, r)
    \/ \E name \in FileNames : RemoveBed(name)

FilesSpec == RegistryInit /\ [][FilesNext]_vars

\* The label sets of the registry.  show[k] is the visibility cell of the
\* k-th label set created, `free` the label sets created and not yet moved
\* into the registry; ghosts: latest[name], the label set last inserted
\* under name, and stored[k], the value last stored in the k-th cell.

\* AnnotationLabelSet::new: show = Arc::new(true.into())
NewLabelSet ==
    /\ an.st = "live"
    /\ Len(an.show) < MaxSets
    /\ LET k == Len(an.show) + 1
       IN  an' = [an EXCEPT !.show = Append(@, TRUE),
                            !.free = @ \cup {k},
                            !.stored = Append(@, TRUE),
                            !.op = [fn |-> "new", id |-> k]]
    /\ RegistryUnchanged

\* insert_label_set(name, label_set): the label set is moved into a new Arc
InsertLabelSet(name, k) ==
    /\ an.st = "live"
    /\ k \in an.free
    /\ an' = [an EXCEPT !.label_sets = MapInsert(@, name, k),
                        !.free = @ \ {k},
                        !.latest = (name :> k) @@ @,
                        !.op = [fn |-> "insert_label_set", name |-> name,
                                id |-> k]]
    /\ RegistryUnchanged

\* set_visibility on a label set: by the caller that made it, through the
\* registry's Arc, or through an Arc taken from the registry earlier
SetVisibilityOf(k, to) ==
    /\ an.st = "live"
    /\ k \in DOMAIN an.show
    /\ an' = [an EXCEPT !.show[k] = to,
                        !.stored[k] = to,
                        !.op = [fn |-> "set_visibility", id |-> k,
                                to |-> to]]
    /\ RegistryUnchanged

\* get_label_set(name) -> Option<&Arc<AnnotationLabelSet>>
GetLabelSet(name) ==
    /\ an.st = "live"
    /\ an' = [an EXCEPT !.op = [fn |-> "get_label_set", name |-> name,
                                ret |-> IF name \in DOMAIN an.label_sets
                                        THEN Some(an.label_sets[name])
                                        ELSE None]]
    /\ RegistryUnchanged

\* visible_label_sets(): label_sets.values().filter(|ls| ls.is_visible()),
\* in the map's iteration order: the label sets it yields, as a set
VisibleLabelSets ==
    /\ an.st = "live"
    /\ an' = [an EXCEPT !.op = [fn |-> "visible_label_sets",
                                ret |-> {an.label_sets[n] :
                                           n \in {m \in DOMAIN an.label_sets :
                                                   an.show[an.label_sets[m]]}}]]
    /\ RegistryUnchanged

RegistryNext ==
    \/ NewLabelSet
    \/ \E name \in SetNames : \E k \in SetIds : InsertLabelSet(name, k)
    \/ \E k \in SetIds : \E to \in BOOLEAN : SetVisibilityOf(k, to)
    \/ \E name \in SetNames : GetLabelSet(name)
    \/ VisibleLabelSets

RegistrySpec == RegistryInit /\ [][RegistryNext]_vars

\* ------------------------------------------------------------- specification

QueryNext ==
    \/ \E c \in Callers : \E r \in GraphQueryRequest : Call(c, r)
    \/ \E c \in Callers : CallerSendReturn(c)
    \/ \E c \in Callers : CallerSendFail(c)
    \/ \E c \in Callers : CallerRecv(c)
    \/ \E c \in Callers : CallerRecvFail(c)
    \/ DropFacade
    \/ ThreadRecv
    \/ ThreadRecvClosed
    \/ ThreadProcess
    \/ ThreadPanic
    \/ ThreadSendReturn

ReadNext ==
    \/ NodeCount
    \/ \E h \in {Pack(n, FALSE) : n \in NodeIds} : HandlePositions(h)
    \/ \E f \in ColorFns : BuildOverlayColors(f)

WorkerNext ==
    \/ \E t \in Tasks : \E op \in QueryOps : RunQuery(t, op)
    \/ \E t \in Tasks : PoolStart(t)
    \/ \E t \in Tasks : PoolFinish(t)
    \/ \E t \in Tasks : Poll(t)
    \/ \E t \in Tasks : Detach(t)

Next == QueryNext \/ ReadNext \/ WorkerNext

Spec == Init /\ [][Next]_vars

\* The scheduler runs every thread that can take a step: the query thread,
\* the callers blocked in send or recv.  Starting a call and dropping the
\* facade are the application's choice.
QueryFairness ==
    /\ WF_vars(ThreadRecv)
    /\ WF_vars(ThreadRecvClosed)
    /\ WF_vars(ThreadProcess)
    /\ WF_vars(ThreadPanic)
    /\ WF_vars(ThreadSendReturn)
    /\ \A c \in Callers :
        /\ WF_vars(CallerSendReturn(c))
        /\ WF_vars(CallerSendFail(c))
        /\ WF_vars(CallerRecv(c))
        /\ WF_vars(CallerRecvFail(c))

FairQuery == Init /\ [][QueryNext]_vars /\ QueryFairness

\* The pool runs every queued task when a worker is free, and a caller that
\* keeps its handle keeps polling it.
WorkerFairness ==
    \A t \in Tasks :
        /\ WF_vars(PoolStart(t))
        /\ WF_vars(PoolFinish(t))
        /\ WF_vars(Poll(t))

FairWorker == Init /\ [][WorkerNext]_vars /\ WorkerFairness

\* ------------------------------------------------------------- properties

Calling == {"send", "recv"}

\* The query thread has left its loop or has unwound from a panic.
ThreadTerminated == thPc \in {"stopped", "panicked"}

\* A caller whose request the thread has taken and who has not yet received
\* (or failed to receive) a response.
InFlight(c) == pc[c] \in Calling /\ ~ ReqOffered(c)

Returned(c) == pc[c] = "idle" /\ result[c] # NoResp

\* C1: every caller receives the response the thread computed for its own
\* request, under every interleaving of the callers' send and recv steps.
C1_OwnResponse ==
    \A c \in Callers :
        result[c] # NoResp =>
            /\ result[c].for = c
            /\ result[c].msg = Respond(graph, req[c])

\* a caller has its response while the thread is still in the send of it
\* and the other caller's request is already waiting
C1_Witness ==
    \E c1, c2 \in Callers :
        /\ c1 # c2
        /\ Returned(c1)
        /\ thPc = "send"
        /\ pc[c2] = "send" /\ ReqOffered(c2)
        /\ req[c1] # req[c2]

\* C2: the response carries the tag of the request and echoes its node_id
\* or path_id.
C2_TagMatches ==
    \A c \in Callers :
        result[c] # NoResp =>
            /\ result[c].msg.tag = req[c].tag
            /\ req[c].tag \in {"NodeStats", "NodeSeq"} =>
                   result[c].msg.node_id = req[c].node_id
            /\ req[c].tag = "PathStats" =>
                   result[c].msg.path_id = req[c].path_id

C2_Witness ==
    \E c1, c2 \in Callers :
        /\ Returned(c1) /\ result[c1].msg.tag = "NodeSeq"
        /\ Returned(c2) /\ result[c2].msg.tag = "PathStats"
        /\ req[c2].path_id = 2

\* C3: at most one request is in flight: the thread takes no further request
\* while a caller has not received the response to the one it took before.
C3_OneInFlight ==
    /\ Cardinality({c \in Callers : InFlight(c)}) <= 1
    /\ Len(accLog) <= (Len(ansLog) - Len(respCh)) + 1

\* one caller's request is in flight with its response pending while the
\* other caller is blocked in send
C3_Witness ==
    \E c1, c2 \in Callers :
        /\ InFlight(c1) /\ respCh # << >>
        /\ pc[c2] = "send" /\ ReqOffered(c2)

\* C4: once the query thread has terminated, a call fails: the caller
\* does not stay blocked and no response value is there for it to return.
C4_DeadThreadCallFails ==
    /\ [](ThreadTerminated => respCh = << >>)
    /\ \A c \in Callers :
          (ThreadTerminated /\ pc[c] \in Calling) ~> (pc[c] = "panicked")

\* a caller whose own request reads an existing node has failed in send
C4_Witness ==
    \E c \in Callers :
        /\ pc[c] = "panicked"
        /\ ~ ReadPanics(graph, req[c])
        /\ thPc = "panicked"

\* C5 (as stated): the channel-closed condition reaches the caller as an
\* error outcome and never as a panic of the calling thread.
C5_NoCallerPanic == \A c \in Callers : pc[c] # "panicked"

\* C5 (amended): a call that ends after the thread has terminated ends in
\* a panic of the calling thread (the unwrap of the channel error); no
\* value, error or other, is returned to the caller.
C5_ClosedChannelPanics ==
    [][\A c \in Callers :
          (ThreadTerminated /\ pc[c] \in Calling /\ pc'[c] \notin Calling)
              => (pc'[c] = "panicked" /\ result'[c] = NoResp)]_vars

C5_Witness ==
    \E c \in Callers :
        /\ pc[c] = "panicked"
        /\ facade = "live"
        /\ result[c] = NoResp

\* C6: every request the thread takes is answered exactly once, with the
\* response to that request, before the thread takes the next one; the
\* responses go out in the order of the requests and none goes out
\* without a request.
C6_ExactlyOnceFifo ==
    /\ [](/\ Len(ansLog) <= Len(accLog)
          /\ Len(accLog) <= Len(ansLog) + 1
          /\ \A i \in DOMAIN ansLog :
                ansLog[i] = [for |-> accLog[i].from,
                             msg |-> Respond(graph, accLog[i].msg)])
    /\ [][Len(accLog') > Len(accLog)
             => (Len(ansLog) = Len(accLog) /\ respCh = << >>)]_vars

\* two requests of different callers answered one after the other
C6_Witness ==
    /\ Len(ansLog) = 2
    /\ accLog[1].from # accLog[2].from
    /\ accLog[1].msg # accLog[2].msg

\* C7: while the query thread is alive, every call returns.
C7_CallReturns ==
    \A c \in Callers :
        (pc[c] \in Calling) ~> (Returned(c) \/ thPc = "panicked")

\* both callers were inside a call at once and both have returned
C7_Witness ==
    /\ \A c \in Callers : Returned(c)
    /\ thPc = "recv"
    /\ facade = "live"

\* C8 (as stated): once the thread has panicked, a caller waiting for its
\* response stays blocked: it never returns or fails.
C8_BlocksForever ==
    [][\A c \in Callers :
          (thPc = "panicked" /\ InFlight(c)) => InFlight(c)']_vars

\* C8 (amended): the call has no timeout or cancellation path: a caller
\* whose request is in flight leaves the call only with the response the
\* thread sent, or, once the thread has panicked and dropped its endpoints,
\* with the failure of its recv.  While the thread stalls the caller
\* stays blocked.
C8_NoTimeoutPath ==
    [][\A c \in Callers :
          (InFlight(c) /\ ~ InFlight(c)') =>
              \/ /\ pc'[c] = "idle"
                 /\ respCh # << >>
                 /\ result'[c] = Head(respCh)
              \/ /\ pc'[c] = "panicked"
                 /\ thPc = "panicked"]_vars

\* the caller whose request the thread panicked on has failed in recv
C8_Witness ==
    \E c \in Callers :
        /\ thPc = "panicked"
        /\ pc[c] = "panicked"
        /\ accLog # << >>
        /\ accLog[Len(accLog)].from = c

\* C9: no operation changes the graph or the path-position index.
C9_StoreImmutable ==
    /\ [](path_positions = IndexPaths(graph))
    /\ [][graph' = graph /\ path_positions' = path_positions]_vars

\* a lookup in the index and a request through the thread have both run
C9_Witness ==
    /\ obs.op = "handle_positions"
    /\ obs.val.some
    /\ \E c \in Callers : Returned(c)

\* C10: of two run_query invocations, one detached at once, the other is
\* not held up and its handle yields the value of its own operation.
C10_Independent ==
    /\ [](\A t \in Tasks :
            task[t].handle = "taken" => task[t].got = OpValue(graph, task[t].op))
    /\ \A t \in Tasks :
          (task[t].handle = "held")
              ~> (task[t].handle = "detached" \/
                  (task[t].handle = "taken" /\
                   task[t].got = OpValue(graph, task[t].op)))

\* one handle detached before its task ran, the other has yielded its value
C10_Witness ==
    \E t1, t2 \in Tasks :
        /\ t1 # t2
        /\ task[t1].handle = "detached"
        /\ task[t1].st = "queued"
        /\ task[t2].handle = "taken"
        /\ task[t1].op # task[t2].op
        /\ task[t2].got = OpValue(graph, task[t2].op)

\* C11: an operation submitted with run_query whose handle is discarded
\* still runs to completion on the pool; discarding the handle changes
\* nothing of the operation, and the discarded handle never yields the result.
C11_DetachedCompletes ==
    /\ \A t \in Tasks :
          (task[t].handle = "detached")
              ~> (task[t].handle = "detached" /\ task[t].st = "done" /\
                  task[t].val = OpValue(graph, task[t].op))
    /\ [][\A t \in Tasks :
            (task[t].handle = "held" /\ task'[t].handle = "detached")
                => (task'[t].st = task[t].st /\ task'[t].op = task[t].op)]_vars
    /\ [](\A t \in Tasks : task[t].handle = "detached" => task[t].got = -1)

\* a handle discarded before its operation started, the operation done
C11_Witness ==
    \E t \in Tasks :
        /\ task[t].handle = "detached"
        /\ task[t].st = "done"
        /\ task[t].val = OpValue(graph, task[t].op)
        /\ task[t].got = -1

\* The store's contents counted directly from its nodes, edges and paths.
RECURSIVE CountOccurrences(_, _)
CountOccurrences(steps, n) ==
    IF steps = << >> THEN 0
    ELSE (IF Head(steps) \in {2 * n, 2 * n + 1} THEN 1 ELSE 0)
         + CountOccurrences(Tail(steps), n)

RECURSIVE CountPathOccurrences(_, _)
CountPathOccurrences(paths, n) ==
    IF paths = << >> THEN 0
    ELSE CountOccurrences(Head(paths), n)
         + CountPathOccurrences(Tail(paths), n)

\* edges that enter the forward strand of n, edges that leave it
EdgesOnLeft(g, n) ==
    Cardinality({e \in g.edges : e[2] = 2 * n \/ e[1] = 2 * n + 1})

EdgesOnRight(g, n) ==
    Cardinality({e \in g.edges : e[1] = 2 * n \/ e[2] = 2 * n + 1})

BasesOf(g) == UNION {{<<n, i>> : i \in DOMAIN g.seq[n]} : n \in g.nodes}

\* C12: the fields of a response equal the values counted directly from the
\* store: NodeStats gives the node's number of path steps, its (left, right)
\* degree and its sequence length, NodeSeq the forward sequence and its
\* length, GraphStats the node, edge and path counts and the total length.
C12_FieldsMatchStore ==
    \A c \in Callers :
        result[c] # NoResp =>
            LET m == result[c].msg
                r == req[c]
            IN  /\ r.tag = "NodeStats" =>
                     /\ m.coverage = CountPathOccurrences(graph.paths, r.node_id)
                     /\ m.degree = <<EdgesOnLeft(graph, r.node_id),
                                     EdgesOnRight(graph, r.node_id)>>
                     /\ m.len = Len(graph.seq[r.node_id])
                /\ r.tag = "NodeSeq" =>
                     /\ m.seq = graph.seq[r.node_id]
                     /\ m.len = Len(m.seq)
                /\ r.tag = "GraphStats" =>
                     /\ m.node_count = Cardinality(graph.nodes)
                     /\ m.edge_count = Cardinality(graph.edges)
                     /\ m.path_count = Len(graph.paths)
                     /\ m.total_len = Cardinality(BasesOf(graph))

\* NodeStats of a node on two path steps with an edge on its right only, and
\* NodeSeq of the other node
C12_Witness ==
    \E c1, c2 \in Callers :
        /\ Returned(c1) /\ req[c1] = NodeStatsReq(1)
        /\ result[c1].msg.coverage = 2
        /\ result[c1].msg.degree = <<0, 1>>
        /\ result[c1].msg.len = 2
        /\ Returned(c2) /\ req[c2] = NodeSeqReq(2)
        /\ result[c2].msg.seq = <<"G">>
        /\ result[c2].msg.len = 1

\* the i-th handle of the graph in ascending order
NthHandle(g, i) ==
    CHOOSE h \in Handles(g) : Cardinality({x \in Handles(g) : x < h}) = i - 1

\* C13: build_overlay_colors(f) returns one colour per handle of the graph,
\* element i being f of the i-th handle in ascending order, and f is called
\* once per handle in ascending order, whatever the enumeration order.
C13_SortedOverlay ==
    obs.op = "overlay" =>
        /\ Len(obs.val) = Cardinality(Handles(graph))
        /\ Len(obs.fcalls) = Cardinality(Handles(graph))
        /\ \A i \in 1..Cardinality(Handles(graph)) :
              /\ obs.fcalls[i] = NthHandle(graph, i)
              /\ obs.val[i] = ApplyColor(obs.f, graph, NthHandle(graph, i))

\* the graph enumerated its handles in descending order
C13_Witness ==
    /\ obs.op = "overlay"
    /\ obs.f = "by_len"
    /\ Len(obs.enum) = 2
    /\ obs.enum[1] > obs.enum[2]
    /\ obs.val = <<2, 1>>

\* C26: the query thread stops if and only if its request channel is closed
\* (the facade is dropped): after the drop it leaves its loop and receives
\* nothing further; while the facade exists and no read panics it never
\* stops, and after responding it waits for a request again.
C26_StopsIffFacadeDropped ==
    /\ [](thPc = "stopped" => facade = "dropped")
    /\ (facade = "dropped" /\ thPc # "panicked") ~> (thPc = "stopped")
    /\ [][facade = "dropped" => accLog' = accLog]_vars
    /\ [][thPc = "stopped" => thPc' = "stopped"]_vars
    /\ (thPc = "send") ~> (thPc = "recv")

\* the thread has answered a request and stopped after the drop
C26_Witness ==
    /\ thPc = "stopped"
    /\ facade = "dropped"
    /\ Len(ansLog) >= 1
    /\ Len(accLog) = Len(ansLog)

\* C27: the query thread keeps no state between requests: a response
\* depends on its request and the graph only, so the same request gets the
\* same response whatever was asked before, by whichever caller.
C27_NoStateBetweenRequests ==
    /\ thPc = "recv" => thReq = NoReq
    /\ \A i \in DOMAIN ansLog :
          /\ ansLog[i].msg = Respond(graph, accLog[i].msg)
          /\ \A j \in DOMAIN ansLog :
                accLog[i].msg = accLog[j].msg => ansLog[i].msg = ansLog[j].msg

\* the same request answered first, and answered after another caller's
\* request, with the same response
C27_Witness ==
    /\ Len(ansLog) = 2
    /\ accLog[1].msg = PathStatsReq(1)
    /\ accLog[2].msg = PathStatsReq(1)
    /\ accLog[1].from # accLog[2].from
    /\ ansLog[1].msg = ansLog[2].msg
    /\ ansLog[2].msg.step_count = 3

\* a PathStats request for a path the graph does not hold
AbsentPathStats(m) ==
    m.tag = "PathStats" /\ m.path_id \notin DOMAIN graph.paths

\* C36: a PathStats request for a path identifier the graph does not hold
\* is answered with PathStats of that path_id and step_count 0; it does not
\* end the query thread, and a request accepted after it is answered and
\* its response delivered.
C36_AbsentPathCountsZero ==
    /\ [](\A i \in DOMAIN ansLog :
             AbsentPathStats(accLog[i].msg)
                => ansLog[i].msg = [tag |-> "PathStats",
                                    path_id |-> accLog[i].msg.path_id,
                                    step_count |-> 0])
    /\ [](thPc = "panicked" => thReq.msg.tag # "PathStats")
    /\ (Len(accLog) >= 1 /\ AbsentPathStats(accLog[1].msg))
          ~> (Len(ansLog) >= 1)
    /\ \A c \in Callers :
          (/\ Len(accLog) = 2
           /\ AbsentPathStats(accLog[1].msg)
           /\ accLog[2].from = c
           /\ InFlight(c)
           /\ accLog[2].msg.tag \in {"GraphStats", "PathStats"})
             ~> (Len(ansLog) >= 2 /\ Returned(c) /\ result[c] = ansLog[2])

\* path 2 of a graph with one path was asked for, answered with step count
\* 0, and a later request for the statistics of the graph was answered too
C36_Witness ==
    /\ Len(ansLog) = 2
    /\ Len(graph.paths) = 1
    /\ accLog[1].msg = PathStatsReq(2)
    /\ ansLog[1].msg.step_count = 0
    /\ accLog[2].msg = GraphStatsReq
    /\ ansLog[2].msg.path_count = 1
    /\ Returned(accLog[2].from)
    /\ thPc = "recv"

\* ------------------------------------------------------------- step-range properties

RangeDone == psr.st = "done"

StrictlyAscending(offs) == \A i \in 1..(Len(offs) - 1) : offs[i] < offs[i + 1]

\* A bound after subtracting the path-start offset, clamped to zero.
ClampedSub(a, off) == IF a >= off THEN a - off ELSE 0

PathStart == UnwrapOr(psr.args.offset, 0)

ReturnedOffsets == SubSeq(psr.args.steps, psr.out.lo + 1, psr.out.hi)

\* C14: for a step array sorted ascending by offset and an interval [s, e),
\* every step path_step_range returns has an offset p with s' <= p < e', s'
\* and e' being the bounds after subtracting the path-start offset.
C14_WithinAdjustedInterval ==
    (RangeDone /\ StrictlyAscending(psr.args.steps)
              /\ psr.args.start <= psr.args.end)
        => /\ ~psr.out.panic
           /\ \A i \in 1..Len(ReturnedOffsets) :
                 /\ ClampedSub(psr.args.start, PathStart) <= ReturnedOffsets[i]
                 /\ ReturnedOffsets[i] < ClampedSub(psr.args.end, PathStart)

\* An interval with both bounds below the path-start offset.
BeforePath ==
    /\ psr.args.start <= psr.args.end
    /\ psr.args.end < PathStart

\* An interval with both adjusted bounds beyond the last step offset.
AfterPath ==
    /\ psr.args.start <= psr.args.end
    /\ psr.args.steps # << >>
    /\ ClampedSub(psr.args.start, PathStart)
           > psr.args.steps[Len(psr.args.steps)]

\* C15: an interval entirely before the path (both bounds below the
\* path-start offset) or entirely after it (both adjusted bounds beyond the
\* last step offset) makes path_step_range return an empty slice.
C15_OutsideIsEmpty ==
    (RangeDone /\ StrictlyAscending(psr.args.steps)
              /\ (BeforePath \/ AfterPath))
        => (~psr.out.panic /\ psr.out.lo = psr.out.hi)

\* C16: for a degenerate interval (start = end) path_step_range returns an
\* empty slice, for every sorted step array and every path-start offset,
\* also when start coincides with a step offset.
C16_DegenerateIsEmpty ==
    (RangeDone /\ psr.args.start = psr.args.end)
        => (~psr.out.panic /\ psr.out.lo = psr.out.hi)

C16_Witness ==
    /\ RangeDone
    /\ psr.args.start = psr.args.end
    /\ psr.args.offset.some /\ PathStart > 0
    /\ \E i \in 1..Len(psr.args.steps) :
          /\ i > 1
          /\ psr.args.steps[i] = psr.args.start - PathStart
    /\ ~psr.out.panic
    /\ ReturnedOffsets = << >>

\* The worked example: steps at [0,10,20,30,40], path start 0, query [15,35).
IsExample ==
    /\ psr.args.steps = ExampleSteps
    /\ PathStart = 0
    /\ psr.args.start = 15
    /\ psr.args.end = 35

\* C17 as stated: on the worked example path_step_range returns indices 1
\* through 4 of the array, the steps at offsets 10 through 40.
C17_ExampleIndices1Through4 ==
    (RangeDone /\ IsExample)
        => (~psr.out.panic /\ ReturnedOffsets = <<10, 20, 30, 40>>)

\* C17 amended: on the worked example path_step_range returns indices 2 and
\* 3 of the array, the steps at offsets 20 and 30, the ones inside [15,35).
C17_ExampleIndices2And3 ==
    (RangeDone /\ IsExample)
        => (~psr.out.panic /\ psr.out.lo = 2 /\ psr.out.hi = 4
                           /\ ReturnedOffsets = <<20, 30>>)

C17_Witness ==
    /\ RangeDone
    /\ IsExample
    /\ psr.args.offset = Some(0)
    /\ ~psr.out.panic
    /\ Len(ReturnedOffsets) = 2

\* C18: path_step_range never panics, for any step array, any optional
\* offset and any pair (start, end), an inverted interval included.
C18_NeverPanics == RangeDone => ~psr.out.panic

\* the 0-based index of the first step whose offset is >= key, the array
\* length when there is none
FirstAtLeast(offs, key) == Cardinality({i \in DOMAIN offs : offs[i] < key})

\* C28: for a step array sorted ascending by distinct offsets,
\* path_step_range returns exactly steps[i..j), i the index of the first
\* step whose offset is >= the adjusted start, j that of the first step whose
\* offset is >= the adjusted end, clamped to the array length.
C28_LowerBoundSlice ==
    (RangeDone /\ StrictlyAscending(psr.args.steps))
        => /\ ~psr.out.panic
           /\ psr.out.lo = FirstAtLeast(psr.args.steps,
                               ClampedSub(psr.args.start, PathStart))
           /\ psr.out.hi = FirstAtLeast(psr.args.steps,
                               ClampedSub(psr.args.end, PathStart))

\* ------------------------------------------------------------- name-parser properties

ChrRangeDone == pn.st = "done" /\ pn.fn = "path_name_chr_range"

AllDigits(s) == s # << >> /\ \A i \in DOMAIN s : IsDigit(s[i])

\* The readings of a name as "<path>#<seq_id>:<start>-<end>" with decimal
\* start and end: the triple (seq_id, start, end) of every such reading.
Readings(name) ==
    {<<SubSeq(name, t[1] + 1, t[2] - 1),
       DecimalValue(SubSeq(name, t[2] + 1, t[3] - 1)),
       DecimalValue(SubSeq(name, t[3] + 1, Len(name)))>> :
        t \in {u \in (DOMAIN name) \X (DOMAIN name) \X (DOMAIN name) :
                 /\ u[1] < u[2] /\ u[2] < u[3]
                 /\ name[u[1]] = "#" /\ name[u[2]] = ":" /\ name[u[3]] = "-"
                 /\ \A j \in 1..(u[1] - 1) : name[j] # "#"
                 /\ AllDigits(SubSeq(name, u[2] + 1, u[3] - 1))
                 /\ AllDigits(SubSeq(name, u[3] + 1, Len(name)))}}

\* C19: path_name_chr_range applied to a name of the form
\* "<path>#<seq_id>:<start>-<end>" with decimal start and end returns
\* (seq_id, start, end); a name without '#', or whose start or end is not a
\* decimal number, gives an absent result.
C19_ParsesChrRange ==
    ChrRangeDone =>
        /\ ~pn.out.panic
        /\ IF Readings(pn.name) # {}
           THEN pn.out.res.some /\ pn.out.res.val \in Readings(pn.name)
           ELSE pn.out.res = None

\* C20: the name parsers path_name_chr_range, path_name_range and
\* path_name_offset never panic: for every byte string they return a parsed
\* value or an absent result.
C20_ParsersNeverPanic == pn.st = "done" => ~pn.out.panic

\* ------------------------------------------------------------- cluster properties

Built == cc.st = "built"

\* the indices of the labelled steps of the path
LabeledSteps ==
    {ix \in DOMAIN cc.in.steps : cc.in.steps[ix] \in DOMAIN cc.in.labels}

\* the labelled step before ix, if any
PrevLabeled(ix) ==
    {jx \in LabeledSteps :
        jx < ix /\ \A k \in LabeledSteps : ~(jx < k /\ k < ix)}

StepPos(ix) == Center(cc.in.nodes[cc.in.steps[ix]])

\* screen distance of two steps against the radius of the last build
ScreenDistLeq(ix, jx) ==
    Abs(StepPos(ix) - StepPos(jx)) * ScaleOne
        <= cc.cache.radius * cc.cache.view_scale

\* the index ranges of the clusters the scan formed: the closed ones and the
\* one open at its end
ScanRanges ==
    {c.range : c \in cc.scan.clusters}
        \cup (IF cc.scan.open THEN {cc.scan.range} ELSE {})

InRange(ix, r) == r[1] <= ix /\ ix <= r[2]

SameScanCluster(ix, jx) ==
    \E r \in ScanRanges : InRange(ix, r) /\ InRange(jx, r)

\* the index ranges of the clusters recorded in the cache
RecordedRanges ==
    {cc.cache.node_labels[a].range : a \in DOMAIN cc.cache.node_labels}

\* C21: a labelled step joins the open cluster when, and only when, it is
\* within radius of the immediately preceding labelled step; three labelled
\* nodes in a row at distance radius land in one cluster.
C21_ChainsThroughPrevious ==
    Built =>
        \A ix \in LabeledSteps : \A jx \in PrevLabeled(ix) :
            SameScanCluster(ix, jx) <=> ScreenDistLeq(ix, jx)

\* C22: after the scan the still-open cluster is recorded, so every
\* labelled step of the path belongs to exactly one recorded cluster.
C22_EveryLabelRecorded ==
    Built =>
        \A ix \in LabeledSteps :
            Cardinality({r \in RecordedRanges : InRange(ix, r)}) = 1

\* a rebuild_cluster call has just returned: the step from the state before
\* the call to the state after it
RebuildStep == cc.st = "built" /\ cc'.st = "built" /\ cc'.n = cc.n + 1

NearStoredScale == Abs(cc'.call.scale - cc.cache.view_scale) < ScaleEps

\* C23: rebuild_cluster with a scale within 0.0001 of the stored one and the
\* stored radius returns false and leaves cluster_offsets, node_labels,
\* view_scale and radius as they were.
C23_ValidCacheUntouched ==
    [][(RebuildStep /\ NearStoredScale
                    /\ cc'.call.radius = cc.cache.radius)
          => (cc'.call.ret = FALSE /\ cc'.cache = cc.cache)]_vars

\* a second call with the same arguments returned false; a call with a
\* scale near, not equal to, the stored one returned false
C23_Witness ==
    /\ Built
    /\ cc.n = 2
    /\ cc.call.ret = FALSE
    /\ cc.call.scale # cc.cache.view_scale
    /\ cc.call.radius = cc.cache.radius
    /\ DOMAIN cc.cache.node_labels # {}

\* two caches hold the same clusters: same anchors, same label lists, same
\* offset vector per anchor, same scale and radius
SameClusters(a, b) ==
    /\ a.view_scale = b.view_scale
    /\ a.radius = b.radius
    /\ DOMAIN a.node_labels = DOMAIN b.node_labels
    /\ Len(a.cluster_offsets) = Len(b.cluster_offsets)
    /\ \A n \in DOMAIN a.node_labels :
          /\ a.node_labels[n].label_indices = b.node_labels[n].label_indices
          /\ a.cluster_offsets[a.node_labels[n].offset_ix + 1]
                = b.cluster_offsets[b.node_labels[n].offset_ix + 1]

\* C24: rebuild_cluster with another radius, or a scale at least 0.0001 from
\* the stored one, returns true and leaves the cache as a fresh new_cluster
\* build with the same steps, nodes, label set, scale and radius.
C24_RebuildEqualsFreshBuild ==
    [][(RebuildStep /\ (~NearStoredScale
                        \/ cc'.call.radius # cc.cache.radius))
          => /\ cc'.call.ret = TRUE
             /\ SameClusters(cc'.cache,
                             BuildClusters(cc.in, cc'.call.scale,
                                           cc'.call.radius))]_vars

\* a rebuild at twice the scale has returned true and recorded a cluster
\* of two steps
C24_Witness ==
    /\ Built
    /\ cc.n = 1
    /\ cc.call.ret = TRUE
    /\ cc.cache.view_scale = 2 * ScaleOne
    /\ \E a \in DOMAIN cc.cache.node_labels :
          cc.cache.node_labels[a].range = <<1, 2>>

\* C29: a cluster recorded with step range [first, last] is stored under
\* the node of the step at index first + floor((last - first + 1) / 2); a
\* single-member cluster under its member's own node.
C29_AnchorIsMiddleStep ==
    Built =>
        \A a \in DOMAIN cc.cache.node_labels :
            LET first == cc.cache.node_labels[a].range[1]
                last  == cc.cache.node_labels[a].range[2]
            IN  /\ a = cc.in.steps[first + (last - first + 1) \div 2]
                /\ first = last => a = cc.in.steps[first]

\* a two-step cluster recorded under its second step's node
C29_Witness ==
    /\ Built
    /\ \E a \in DOMAIN cc.cache.node_labels :
          /\ cc.cache.node_labels[a].range = <<1, 2>>
          /\ cc.in.steps[1] # cc.in.steps[2]
          /\ a = cc.in.steps[2]

\* the position the radius test refers to when step ix is visited: that of
\* the first step of the cluster open at that moment
OpenClusterStart(jx) == {r[1] : r \in {q \in ScanRanges : InRange(jx, q)}}

\* C30: the radius test is inclusive: a labelled step at a screen distance
\* from the reference position equal to the radius extends the open cluster,
\* only a greater distance closes it.
C30_RadiusInclusive ==
    Built =>
        \A ix \in LabeledSteps : \A jx \in PrevLabeled(ix) :
            \A sx \in OpenClusterStart(jx) :
                SameScanCluster(ix, jx) <=> ScreenDistLeq(ix, sx)

\* a step at a distance of exactly the radius joined the open cluster
C30_Witness ==
    /\ Built
    /\ \E ix \in LabeledSteps : \E jx \in PrevLabeled(ix) :
          /\ SameScanCluster(ix, jx)
          /\ Abs(StepPos(ix) - StepPos(cc.scan.range[1])) * ScaleOne
                = cc.cache.radius * cc.cache.view_scale
          /\ cc.scan.range = <<jx, ix>>

\* the label-index lists of the labelled steps first..last, concatenated in
\* path order
RECURSIVE LabelsBetween(_, _)
LabelsBetween(first, last) ==
    IF first > last THEN << >>
    ELSE (IF first \in LabeledSteps THEN cc.in.labels[cc.in.steps[first]]
          ELSE << >>) \o LabelsBetween(first + 1, last)

\* C31: the label indices of a cluster, as closed by the scan and as
\* recorded in node_labels, are exactly the label-index lists of the
\* labelled steps from its first to its last step, concatenated in path
\* order; the ranges of the clusters do not overlap, so no other cluster's
\* labels are among them, and unlabelled steps in the range add nothing.
C31_LabelsOfOwnRange ==
    Built =>
        /\ \A c \in cc.scan.clusters :
              c.label_indices = LabelsBetween(c.range[1], c.range[2])
        /\ \A a \in DOMAIN cc.cache.node_labels :
              LET e == cc.cache.node_labels[a]
              IN  e.label_indices = LabelsBetween(e.range[1], e.range[2])
        /\ \A q, r \in ScanRanges :
              q # r => (q[2] < r[1] \/ r[2] < q[1])

\* a recorded cluster of steps 1..3 whose step 2 has no label, closed by a
\* labelled step 4 that opened the next cluster
C31_Witness ==
    /\ Built
    /\ <<1, 3>> \in RecordedRanges
    /\ 2 \notin LabeledSteps
    /\ cc.scan.range = <<4, 4>>

\* C32: rebuild_cluster with the steps, nodes, radius and view scale of the
\* last build and another view centre returns false and leaves the cache
\* as it was, and the cache still holds the clusters a fresh new_cluster
\* build under the new view would give.
C32_PanKeepsCacheCoherent ==
    [][(/\ RebuildStep
        /\ cc'.call.scale = cc.cache.view_scale
        /\ cc'.call.radius = cc.cache.radius
        /\ cc'.call.center # cc.at.center)
          => /\ cc'.call.ret = FALSE
             /\ cc'.cache = cc.cache
             /\ SameClusters(cc'.cache,
                    BuildClusters(InView(cc.in,
                                     [center |-> cc'.call.center,
                                      scale |-> cc'.call.scale]),
                                  cc'.call.scale, cc'.call.radius))]_vars

\* a cache holding a cluster of steps 1..2, built with the view centred at
\* 0, was asked to rebuild with the view centred at 7 and returned false
C32_Witness ==
    /\ Built
    /\ cc.n = 1
    /\ cc.call.ret = FALSE
    /\ cc.at.center = 0
    /\ cc.call.center = 7
    /\ \E a \in DOMAIN cc.cache.node_labels :
          cc.cache.node_labels[a].range = <<1, 2>>

\* C33: after new_cluster and any sequence of rebuild_cluster calls the
\* stored radius is the radius of the most recent call and the stored
\* view_scale is less than 0.0001 from the scale of the most recent call: a
\* call that returns false leaves the stored scale alone, so the next call
\* is again compared with the scale of the last actual build.
C33_StoredCloseToLastCall ==
    Built =>
        /\ cc.cache.radius = cc.call.radius
        /\ Abs(cc.call.scale - cc.cache.view_scale) < ScaleEps

\* a call at a scale half an epsilon above the stored one returned false
\* and the stored scale is still that of the build
C33_Witness ==
    /\ Built
    /\ cc.n = 1
    /\ cc.call.fn = "rebuild_cluster"
    /\ cc.call.ret = FALSE
    /\ cc.call.scale = ScaleOne + 1
    /\ cc.cache.view_scale = ScaleOne

\* C34: node_labels has one entry per closed cluster, also when the path
\* visits a node more than once and two clusters have the same anchor node:
\* the label list of every closed cluster is found under its anchor.
C34_NoClusterLost ==
    Built =>
        /\ Cardinality(DOMAIN cc.cache.node_labels)
              = Cardinality(cc.scan.clusters)
        /\ \A c \in cc.scan.clusters :
              LET a == cc.in.steps[c.range[1]
                           + (c.range[2] - c.range[1] + 1) \div 2]
              IN  /\ a \in DOMAIN cc.cache.node_labels
                  /\ cc.cache.node_labels[a].label_indices = c.label_indices

\* C35: in every state of a ClusterCache, after new_cluster and after any
\* sequence of rebuild_cluster calls, every offset_ix stored in node_labels
\* is below the length of cluster_offsets and no two entries of node_labels
\* have the same offset_ix.
C35_OffsetIndicesValid ==
    Built =>
        /\ \A a \in DOMAIN cc.cache.node_labels :
              /\ cc.cache.node_labels[a].offset_ix >= 0
              /\ cc.cache.node_labels[a].offset_ix
                    < Len(cc.cache.cluster_offsets)
        /\ \A a, b \in DOMAIN cc.cache.node_labels :
              a # b => cc.cache.node_labels[a].offset_ix
                          # cc.cache.node_labels[b].offset_ix

\* the second rebuild_cluster call returned true and left two clusters,
\* with offset indices 0 and 1
C35_Witness ==
    /\ Built
    /\ cc.n = 2
    /\ cc.call.ret = TRUE
    /\ Len(cc.cache.cluster_offsets) = 2
    /\ {cc.cache.node_labels[a].offset_ix :
           a \in DOMAIN cc.cache.node_labels} = {0, 1}

\* ------------------------------------------------------------- label-set properties

\* the plain fields a holder sees
FieldsOf(h) == ls.objs[ls.holds[h]].fields

\* C25: the visibility flag is one cell shared by every holder of a label
\* set (struct clones and Arc owners alike): whatever the interleaving of
\* set_visibility calls, is_visible through any holder returns the value
\* of the most recent store (the constructor's true before any store), and
\* no operation, set_visibility included, changes the label strings, the
\* node-to-label mapping, the names or the path that any holder sees.
C25_LastStoreWins ==
    [][/\ ls'.op.fn = "is_visible" => ls'.op.ret = ls.last.val
       /\ \A h \in Holders :
             Holding(h) => /\ ls'.holds[h] = ls.holds[h]
                           /\ ls'.objs[ls'.holds[h]].fields = FieldsOf(h)
       /\ ls'.op.fn = "set_visibility"
             => /\ ls'.holds = ls.holds
                /\ DOMAIN ls'.objs = DOMAIN ls.objs
                /\ \A o \in DOMAIN ls.objs :
                      ls'.objs[o].fields = ls.objs[o].fields]_vars

\* a struct clone reads false after an Arc owner (neither of them the
\* original holder, nor each other) stored it
C25_Witness ==
    /\ ls.st = "live"
    /\ ls.op.fn = "is_visible"
    /\ ls.op.ret = FALSE
    /\ ls.last.val = FALSE
    /\ ls.last.by # ls.op.by
    /\ ls.holds[ls.op.by] # 1
    /\ ls.holds[ls.last.by] = 1
    /\ ls.last.by # 1

\* ------------------------------------------------------------- registry properties

\* the (name, file type) pairs the two record maps hold
HeldFiles ==
    {<<n, "Gff3">> : n \in DOMAIN an.gff3_annotations}
        \cup {<<n, "Bed">> : n \in DOMAIN an.bed_annotations}

\* C37: after any sequence of insert_gff3, insert_bed, remove_gff3 and
\* remove_bed, annot_names lists exactly the names held in the GFF3 and BED
\* record maps, each once and with its own file type: a second insert of a
\* name adds no second entry, and removing a GFF3 name leaves the entry of
\* a BED file of the same name (and the other way round).
C37_NamesMatchMaps ==
    an.st = "live" =>
        /\ {an.annot_names[i] : i \in DOMAIN an.annot_names} = HeldFiles
        /\ \A i, j \in DOMAIN an.annot_names :
              i # j => an.annot_names[i] # an.annot_names[j]

\* C38: a label set is visible when it is created; after any sequence of
\* insert_label_set and set_visibility calls visible_label_sets yields
\* exactly the label sets that are registered (the one last inserted under
\* each name) and whose flag was last set to true; get_label_set returns
\* the label set last inserted under the name, None for a name never used.
C38_VisibleAndLatest ==
    an.st = "live" =>
        /\ an.op.fn = "new" => an.show[an.op.id]
        /\ an.op.fn = "visible_label_sets"
              => an.op.ret = {an.latest[n] :
                                n \in {m \in DOMAIN an.latest :
                                         an.stored[an.latest[m]]}}
        /\ an.op.fn = "get_label_set"
              => an.op.ret = (IF an.op.name \in DOMAIN an.latest
                              THEN Some(an.latest[an.op.name])
                              ELSE None)

\* three label sets were made, the first was replaced under "genes" by the
\* third, the second is registered under "exons" and hidden:
\* visible_label_sets yields the third alone
C38_Witness ==
    /\ an.st = "live"
    /\ an.op.fn = "visible_label_sets"
    /\ an.op.ret = {3}
    /\ an.free = {}
    /\ DOMAIN an.label_sets = {"genes", "exons"}
    /\ an.label_sets["genes"] = 3
    /\ an.label_sets["exons"] = 2
    /\ an.show = <<TRUE, FALSE, TRUE>>

====
